---- MODULE Spec2Model ----
(***************************************************************************)
(* Model of the genbu file-lifecycle subsystem: the WOPI file-lock state   *)
(* machine (handler/files/wopi.rs), the DBFile lock predicates             *)
(* (stores/files/database.rs) and the two metadata stores that implement   *)
(* them, PgStore (connectors/s3/database.rs) and MemStore                  *)
(* (connectors/memory.rs).                                                 *)
(*                                                                         *)
(* Every request is run by a client.  A handler is cut at its awaits: the  *)
(* step that reads the record also takes every decision the code takes on  *)
(* that snapshot, and each later query or object-store call is one more    *)
(* step, so that requests of different clients interleave as the worker    *)
(* pool lets them.  resp holds the response emitted by the last step.      *)
(***************************************************************************)
EXTENDS Integers, Sequences, FiniteSets, TLC

\* ---------------------------------------------------------------- bounds
MaxTime == 45

\* ------------------------------------------------------------- constants
\* Duration::minutes(30), in minutes
LockTTL == 30
\* Option::None of DBFile.lock_expires_at
NoTime == -1
\* Option::None of DBFile.lock and of PutFileRequest.lock
NoLock == "<None>"
\* String::new(), the empty X-WOPI-Lock value
EmptyLock == ""
\* Ok(None) of get_dbfile
NoFile == [path |-> <<>>, size |-> -1, lock |-> NoLock, lock_expires_at |-> NoTime,
           created_by |-> "-"]

Clients == {"c1", "c2"}
Users == {"u1"}
FileIds == {"f1", "f2", "f3", "f9"}
\* ids a request may name: an existing record and one that is never created
RequestIds == {"f1", "f9"}
\* the ids Uuid::new_v4 hands to new records, in the order it hands them out
FreshIds == <<"f2", "f3">>
\* lock tokens are compared byte-exact
Tokens == {"Test", "test"}
Sep == "\\"
BasePath == <<"d", Sep, "a">>
TickSteps == {LockTTL \div 2, LockTTL}
Bodies == {<<>>, <<1>>, <<2>>}

\* X-WOPI-RelativeTarget values: the first names the path of the base record
RelTargets == {<<Sep, "a">>, <<"b">>}

\* the bodies of PutRelativeFile requests
RelBodies == {<<2>>}

VARIABLES now, files, objects, tokens, leases, multipart, cl, resp

vars == <<now, files, objects, tokens, leases, multipart, cl, resp>>

\* ------------------------------------------------------ DBFile (database.rs)
\* an is_locked that looks at the deadline alone
is_locked_DeadlineOnly(file, t) ==
    file.lock_expires_at # NoTime /\ file.lock_expires_at > t

is_locked(file, t) ==
    /\ file.lock # NoLock
    /\ file.lock_expires_at # NoTime
    /\ file.lock_expires_at > t

\* a validate_lock that accepts every token
validate_lock_AnyToken(file, lock, t) == TRUE

validate_lock(file, lock, t) ==
    IF is_locked(file, t) THEN file.lock = lock ELSE TRUE

unchecked_unlock(file) ==
    [file EXCEPT !.lock = NoLock, !.lock_expires_at = NoTime]

unchecked_lock(file, lock, t) ==
    [file EXCEPT !.lock = lock, !.lock_expires_at = t + LockTTL]

unchecked_extend_lock(file, t) ==
    [file EXCEPT !.lock_expires_at = t + LockTTL]

\* Result<(), &FileLock> together with the mutated receiver
DBFile_lock(file, lock, t) ==
    IF validate_lock(file, lock, t)
    THEN [ok |-> TRUE, file |-> unchecked_lock(file, lock, t), err |-> NoLock]
    ELSE [ok |-> FALSE, file |-> file, err |-> file.lock]

DBFile_unlock(file, lock, t) ==
    IF validate_lock(file, lock, t)
    THEN [ok |-> TRUE, file |-> unchecked_unlock(file), err |-> NoLock]
    ELSE [ok |-> FALSE, file |-> file, err |-> file.lock]

\* an extend_lock that does not compare the token
DBFile_extend_lock_Unchecked(file, lock, t) ==
    [ok |-> TRUE, file |-> unchecked_extend_lock(file, t), err |-> NoLock]

DBFile_extend_lock(file, lock, t) ==
    IF validate_lock(file, lock, t)
    THEN [ok |-> TRUE, file |-> unchecked_extend_lock(file, t), err |-> NoLock]
    ELSE [ok |-> FALSE, file |-> file, err |-> file.lock]

\* str::split('\\'): the segments between separators
RECURSIVE split(_)
split(s) ==
    IF \A i \in 1..Len(s) : s[i] # Sep THEN <<s>>
    ELSE LET i == CHOOSE k \in 1..Len(s) : s[k] = Sep /\ \A j \in 1..(k - 1) : s[j] # Sep IN
         <<SubSeq(s, 1, i - 1)>> \o split(SubSeq(s, i + 1, Len(s)))

\* str::split_terminator('\\'): a trailing empty segment is dropped
split_terminator(s) ==
    LET p == split(s) IN
    IF p[Len(p)] = <<>> THEN SubSeq(p, 1, Len(p) - 1) ELSE p

\* Itertools::join("\\")
RECURSIVE join(_)
join(parts) ==
    IF parts = <<>> THEN <<>>
    ELSE IF Len(parts) = 1 THEN parts[1]
    ELSE parts[1] \o <<Sep>> \o join(Tail(parts))

parent_folder(file) ==
    LET parts == split_terminator(file.path) IN
    IF parts = <<>> THEN <<>> ELSE join(SubSeq(parts, 1, Len(parts) - 1))

name(file) == LET parts == split(file.path) IN parts[Len(parts)]

\* DBFile::new
DBFile_new(path, user_id, size) ==
    [path |-> path, size |-> size, lock |-> NoLock, lock_expires_at |-> NoTime,
     created_by |-> user_id]

\* the token held at time t, NoLock when the record is logically unlocked
HeldLock(file, t) == IF is_locked(file, t) THEN file.lock ELSE NoLock

\* UploadLease::template: a lease expires 6 hours after it was created
LeaseTTL == 360
LeaseIds == <<"l1", "l2">>
LeaseKeys == {LeaseIds[i] : i \in 1..Len(LeaseIds)}
NoLease == [owner |-> "-", name |-> <<>>, size |-> -1, s3_upload_id |-> 0,
            completed |-> FALSE, expires_at |-> NoTime]

\* the access_token query parameter: absent, or not a uuid
NoToken == 0
Malformed == -1

\* ------------------------------------------------------------ client state
\* What a request keeps between two awaits: its arguments, the time at which
\* it took the snapshot (the deadline it will write is computed from it) and,
\* of the snapshot, the path, the size and the lock that was held.
Idle == [pc |-> "idle", op |-> "none", file |-> "-", lock |-> NoLock, old |-> NoLock,
         body |-> <<>>, at |-> 0, held |-> NoLock, size |-> -1, path |-> <<>>,
         user |-> "-", newid |-> "-", token |-> 0, access_token |-> NoToken,
         lease |-> NoLease, upload_id |-> 0, suggestion |-> <<>>, counter |-> 0,
         cookie |-> {}]

\* url holds the file id and the access token of a PutRelativeFile answer
NoUrl == [id |-> "-", token |-> 0]

\* info holds the fields of a CheckFileInfo answer that depend on the request
NoInfo == [base_file_name |-> "-", owner_id |-> "-", user_id |-> "-", size |-> -1]

NoResp == [op |-> "none", file |-> "-", lock |-> NoLock, old |-> NoLock, body |-> <<>>,
           res |-> "none", reslock |-> NoLock, at |-> 0, held |-> NoLock, size |-> -1,
           url |-> NoUrl, path |-> <<>>, info |-> NoInfo, user |-> "-",
           access_token |-> NoToken, lease |-> NoLease, upload_id |-> 0, uris |-> <<>>,
           listing |-> {}]

\* only Lock and ExtendLock use the clock after the snapshot
Timed(op) == op \in {"Lock", "ExtendLock"}

Pending(pc, op, f, lock, old, body) ==
    [pc |-> pc, op |-> op, file |-> f, lock |-> lock, old |-> old, body |-> body,
     at |-> IF Timed(op) THEN now ELSE 0, held |-> HeldLock(files[f], now),
     size |-> files[f].size, path |-> files[f].path, user |-> "-", newid |-> "-",
     token |-> 0, access_token |-> NoToken, lease |-> NoLease, upload_id |-> 0,
     suggestion |-> <<>>, counter |-> 0, cookie |-> {}]

\* the response of a request answered in the step that read the record
Answer(op, f, lock, old, body, res, reslock) ==
    [op |-> op, file |-> f, lock |-> lock, old |-> old, body |-> body, res |-> res,
     reslock |-> reslock, at |-> IF Timed(op) THEN now ELSE 0,
     held |-> HeldLock(files[f], now), size |-> files[f].size, url |-> NoUrl,
     path |-> <<>>, info |-> NoInfo, user |-> "-", access_token |-> NoToken,
     lease |-> NoLease, upload_id |-> 0, uris |-> <<>>, listing |-> {}]

\* the response of a request answered by a later step of client c
Reply(c, res, reslock) ==
    [op |-> cl[c].op, file |-> cl[c].file, lock |-> cl[c].lock, old |-> cl[c].old,
     body |-> cl[c].body, res |-> res, reslock |-> reslock, at |-> cl[c].at,
     held |-> cl[c].held, size |-> cl[c].size, url |-> NoUrl, path |-> <<>>,
     info |-> NoInfo, user |-> cl[c].user, access_token |-> cl[c].access_token,
     lease |-> cl[c].lease, upload_id |-> cl[c].upload_id, uris |-> <<>>,
     listing |-> {}]

\* one record, unlocked, whose object holds one of the given bodies
InitWith(bodies) ==
    /\ now = 0
    /\ \E b \in bodies :
         /\ files = [f \in FileIds |->
                       IF f = "f1"
                       THEN [path |-> BasePath, size |-> Len(b), lock |-> NoLock,
                             lock_expires_at |-> NoTime, created_by |-> "u1"]
                       ELSE NoFile]
         /\ objects = [p \in {BasePath} |-> b]
    /\ tokens = <<>>
    /\ leases = [l \in LeaseKeys |-> NoLease]
    /\ multipart = <<>>
    /\ cl = [c \in Clients |-> Idle]
    /\ resp = NoResp

Init == InitWith(Bodies)

\* the clock advances between any two steps
Tick ==
    /\ \E d \in TickSteps : now + d <= MaxTime /\ now' = now + d
    /\ resp' = NoResp
    /\ UNCHANGED <<leases, multipart, files, objects, tokens, cl>>

\* ------------------------------------------- PgStore::lock + handle_lock
\* What PgStore::lock decides on the snapshot it read: the result, whether
\* the update query is sent, and the row that query leaves when nothing
\* interleaves.  On a held lock extend_lock changes the local copy only.
PgStore_lock(file, lock, t) ==
    IF is_locked(file, t)
    THEN LET r == DBFile_extend_lock(file, lock, t) IN
         IF r.ok THEN [res |-> "Ok", err |-> NoLock, write |-> FALSE, file |-> file]
         ELSE [res |-> "Locked", err |-> r.err, write |-> FALSE, file |-> file]
    ELSE [res |-> "Ok", err |-> NoLock, write |-> TRUE,
          file |-> [file EXCEPT !.lock = lock, !.lock_expires_at = t + LockTTL]]

\* Err(DBFileError::Locked(l)) becomes a Conflict carrying l
handle_lock(r) ==
    IF r.res = "Locked" THEN [res |-> "Conflict", reslock |-> r.err]
    ELSE [res |-> "Ok", reslock |-> NoLock]

Lock(c, f, lock) ==
    /\ cl[c].pc = "idle"
    /\ UNCHANGED <<leases, multipart, now, files, objects, tokens>>
    /\ IF files[f] = NoFile
       THEN /\ resp' = Answer("Lock", f, lock, NoLock, <<>>, "NotFound", NoLock)
            /\ UNCHANGED cl
       ELSE LET r == PgStore_lock(files[f], lock, now)
                w == handle_lock(r) IN
            IF r.write
            THEN /\ cl' = [cl EXCEPT ![c] =
                             Pending("lock_update", "Lock", f, lock, NoLock, <<>>)]
                 /\ resp' = NoResp
            ELSE /\ resp' = Answer("Lock", f, lock, NoLock, <<>>, w.res, w.reslock)
                 /\ UNCHANGED cl

\* update file set lock = $1, lock_expires_at = $2 where id = $3
LockUpdate(c) ==
    /\ cl[c].pc = "lock_update"
    /\ files' = [files EXCEPT ![cl[c].file] =
                    [@ EXCEPT !.lock = cl[c].lock, !.lock_expires_at = cl[c].at + LockTTL]]
    /\ resp' = Reply(c, "Ok", NoLock)
    /\ cl' = [cl EXCEPT ![c] = Idle]
    /\ UNCHANGED <<leases, multipart, now, objects, tokens>>

\* ----------------------------------------- PgStore::unlock + handle_unlock
PgStore_unlock(file, lock, t) ==
    LET r == DBFile_unlock(file, lock, t) IN
    IF r.ok
    THEN [res |-> "Ok", err |-> NoLock, write |-> TRUE,
          file |-> [file EXCEPT !.lock = NoLock, !.lock_expires_at = NoTime]]
    ELSE [res |-> "Locked", err |-> r.err, write |-> FALSE, file |-> file]

handle_unlock(r) ==
    IF r.res = "Locked" THEN [res |-> "Conflict", reslock |-> r.err]
    ELSE [res |-> "Ok", reslock |-> NoLock]

Unlock(c, f, lock) ==
    /\ cl[c].pc = "idle"
    /\ UNCHANGED <<leases, multipart, now, files, objects, tokens>>
    /\ IF files[f] = NoFile
       THEN /\ resp' = Answer("Unlock", f, lock, NoLock, <<>>, "NotFound", NoLock)
            /\ UNCHANGED cl
       ELSE LET r == PgStore_unlock(files[f], lock, now)
                w == handle_unlock(r) IN
            IF r.write
            THEN /\ cl' = [cl EXCEPT ![c] =
                             Pending("unlock_update", "Unlock", f, lock, NoLock, <<>>)]
                 /\ resp' = NoResp
            ELSE /\ resp' = Answer("Unlock", f, lock, NoLock, <<>>, w.res, w.reslock)
                 /\ UNCHANGED cl

\* an unlock that clears the deadline and keeps the token
UnlockUpdate_KeepsToken(c) ==
    /\ cl[c].pc = "unlock_update"
    /\ files' = [files EXCEPT ![cl[c].file] = [@ EXCEPT !.lock_expires_at = NoTime]]
    /\ resp' = Reply(c, "Ok", NoLock)
    /\ cl' = [cl EXCEPT ![c] = Idle]
    /\ UNCHANGED <<leases, multipart, now, objects, tokens>>

\* update file set lock = null, lock_expires_at = null where id = $1
UnlockUpdate(c) ==
    /\ cl[c].pc = "unlock_update"
    /\ files' = [files EXCEPT ![cl[c].file] =
                    [@ EXCEPT !.lock = NoLock, !.lock_expires_at = NoTime]]
    /\ resp' = Reply(c, "Ok", NoLock)
    /\ cl' = [cl EXCEPT ![c] = Idle]
    /\ UNCHANGED <<leases, multipart, now, objects, tokens>>

\* ------------------------------------------------- PgStore::extend_lock
\* the deadline written is the one extend_lock computed on the snapshot
PgStore_extend_lock(file, lock, t) ==
    LET r == DBFile_extend_lock(file, lock, t) IN
    IF r.ok
    THEN [res |-> "Ok", err |-> NoLock, write |-> TRUE,
          file |-> [file EXCEPT !.lock_expires_at = r.file.lock_expires_at]]
    ELSE [res |-> "Locked", err |-> r.err, write |-> FALSE, file |-> file]

ExtendLock(c, f, lock) ==
    /\ cl[c].pc = "idle"
    /\ UNCHANGED <<leases, multipart, now, files, objects, tokens>>
    /\ IF files[f] = NoFile
       THEN /\ resp' = Answer("ExtendLock", f, lock, NoLock, <<>>, "NotFound", NoLock)
            /\ UNCHANGED cl
       ELSE LET r == PgStore_extend_lock(files[f], lock, now) IN
            IF r.write
            THEN /\ cl' = [cl EXCEPT ![c] =
                             Pending("extend_update", "ExtendLock", f, lock, NoLock, <<>>)]
                 /\ resp' = NoResp
            ELSE /\ resp' = Answer("ExtendLock", f, lock, NoLock, <<>>, "Conflict", r.err)
                 /\ UNCHANGED cl

\* update file set lock_expires_at = $1 where id = $2
ExtendUpdate(c) ==
    /\ cl[c].pc = "extend_update"
    /\ files' = [files EXCEPT ![cl[c].file] =
                    [@ EXCEPT !.lock_expires_at = cl[c].at + LockTTL]]
    /\ resp' = Reply(c, "Ok", NoLock)
    /\ cl' = [cl EXCEPT ![c] = Idle]
    /\ UNCHANGED <<leases, multipart, now, objects, tokens>>

\* ------------------------------------------------------ unlock_and_relock
\* the store operation: one atomic swap that succeeds iff the held lock is old
unlock_and_relock(file, old, new, t) ==
    IF is_locked(file, t) /\ file.lock = old
    THEN [ok |-> TRUE, file |-> unchecked_lock(file, new, t), err |-> NoLock]
    ELSE [ok |-> FALSE, file |-> file,
          err |-> IF is_locked(file, t) THEN file.lock ELSE EmptyLock]

\* a mapping that answers Ok whatever the store returned
handle_unlock_and_relock_AlwaysOk(found, r) ==
    IF ~found THEN [res |-> "NotFound", reslock |-> NoLock]
    ELSE [res |-> "Ok", reslock |-> NoLock]

\* the mapping of the store result to the WOPI response
handle_unlock_and_relock(found, r) ==
    IF ~found THEN [res |-> "NotFound", reslock |-> NoLock]
    ELSE IF r.ok THEN [res |-> "Ok", reslock |-> NoLock]
    ELSE [res |-> "Conflict", reslock |-> r.err]

UnlockAndRelock(c, f, old, new) ==
    /\ cl[c].pc = "idle"
    /\ LET found == files[f] # NoFile
           r == unlock_and_relock(files[f], old, new, now)
           w == handle_unlock_and_relock(found, r) IN
       /\ resp' = Answer("UnlockAndRelock", f, new, old, <<>>, w.res, w.reslock)
       /\ files' = IF found THEN [files EXCEPT ![f] = r.file] ELSE files
    /\ UNCHANGED <<leases, multipart, now, objects, tokens, cl>>

\* -------------------------------------------------------- handle_get_lock
\* a GetLock that reports the stored token without looking at the deadline
handle_get_lock_Stored(file, t) ==
    IF file.lock # NoLock THEN file.lock ELSE EmptyLock

handle_get_lock(file, t) ==
    IF is_locked(file, t) THEN file.lock ELSE EmptyLock

GetLock(c, f) ==
    /\ cl[c].pc = "idle"
    /\ resp' = IF files[f] = NoFile
               THEN Answer("GetLock", f, NoLock, NoLock, <<>>, "NotFound", NoLock)
               ELSE Answer("GetLock", f, NoLock, NoLock, <<>>, "Ok",
                           handle_get_lock(files[f], now))
    /\ UNCHANGED <<leases, multipart, now, files, objects, tokens, cl>>

\* -------------------------------------------------------- handle_put_file
\* the lock check of handle_put_file on the snapshot: "Conflict" with the
\* lock to report, or "Proceed"
put_file_check(file, lock, t) ==
    IF lock # NoLock
    THEN IF ~validate_lock(file, lock, t)
         THEN [res |-> "Conflict", reslock |-> file.lock]
         ELSE [res |-> "Proceed", reslock |-> NoLock]
    ELSE IF file.size > 0
         THEN [res |-> "Conflict", reslock |-> EmptyLock]
         ELSE [res |-> "Proceed", reslock |-> NoLock]

\* the store operation: persists the fields of the PartialDBFile that are set
update_dbfile(file, size) == [file EXCEPT !.size = size]

PutFile(c, f, lock, body) ==
    /\ cl[c].pc = "idle"
    /\ UNCHANGED <<leases, multipart, now, files, objects, tokens>>
    /\ IF files[f] = NoFile
       THEN /\ resp' = Answer("PutFile", f, lock, NoLock, body, "NotFound", NoLock)
            /\ UNCHANGED cl
       ELSE LET k == put_file_check(files[f], lock, now) IN
            IF k.res = "Conflict"
            THEN /\ resp' = Answer("PutFile", f, lock, NoLock, body, "Conflict", k.reslock)
                 /\ UNCHANGED cl
            ELSE /\ cl' = [cl EXCEPT ![c] =
                             Pending(IF files[f].size # Len(body) THEN "put_update"
                                     ELSE "put_upload", "PutFile", f, lock, NoLock, body)]
                 /\ resp' = NoResp

\* a PutFile that goes on to the upload without persisting the size
PutFileUpdate_KeepsSize(c) ==
    /\ cl[c].pc = "put_update"
    /\ cl' = [cl EXCEPT ![c].pc = "put_upload"]
    /\ resp' = NoResp
    /\ UNCHANGED <<leases, multipart, now, files, objects, tokens>>

PutFileUpdate(c) ==
    /\ cl[c].pc = "put_update"
    /\ files' = [files EXCEPT ![cl[c].file] = update_dbfile(@, Len(cl[c].body))]
    /\ cl' = [cl EXCEPT ![c].pc = "put_upload"]
    /\ resp' = NoResp
    /\ UNCHANGED <<leases, multipart, now, objects, tokens>>

\* FileStorage::upload puts the bytes at the key, or fails
upload(store, path, data) == [p \in DOMAIN store \cup {path} |->
                                 IF p = path THEN data ELSE store[p]]

PutFileUpload(c) ==
    /\ cl[c].pc = "put_upload"
    /\ \E ok \in BOOLEAN :
         IF ok
         THEN /\ objects' = upload(objects, cl[c].path, cl[c].body)
              /\ resp' = Reply(c, "Ok", NoLock)
         ELSE /\ objects' = objects
              /\ resp' = Reply(c, "InternalServerError", NoLock)
    /\ cl' = [cl EXCEPT ![c] = Idle]
    /\ UNCHANGED <<leases, multipart, now, files, tokens>>

\* ------------------------------------------- handle_put_relative_specific
\* the records stored at a path (get_dbfile_by_path)
AtPath(path) == {g \in FileIds : files[g] # NoFile /\ files[g].path = path}

\* the file table declares path unique
path_taken(path) == AtPath(path) # {}

\* the file table's default for size, which the insert leaves unset
SizeDefault == 0

\* PgStore::add_dbfile: insert into file (id, path, created_by), or the error
\* of a violated key
PgStore_add_dbfile(id, file) ==
    IF files[id] # NoFile \/ path_taken(file.path)
    THEN [ok |-> FALSE, files |-> files]
    ELSE [ok |-> TRUE, files |-> [files EXCEPT ![id] = [file EXCEPT !.size = SizeDefault]]]

\* the ids that are neither stored nor held by a request that is about to store
Unused == {i \in 1..Len(FreshIds) :
             /\ files[FreshIds[i]] = NoFile
             /\ \A c \in Clients : cl[c].newid # FreshIds[i]}

\* a target check that takes every stored token for a held lock
put_relative_check_Stored(path, overwrite, t) ==
    IF overwrite \/ AtPath(path) = {}
    THEN [res |-> "Proceed", reslock |-> NoLock]
    ELSE LET f == files[CHOOSE g \in AtPath(path) : TRUE] IN
         IF f.lock # NoLock THEN [res |-> "Locked", reslock |-> f.lock]
         ELSE [res |-> "FileAlreadyExists", reslock |-> NoLock]

\* the check of the target path when overwrite is false
put_relative_check(path, overwrite, t) ==
    IF overwrite \/ AtPath(path) = {}
    THEN [res |-> "Proceed", reslock |-> NoLock]
    ELSE LET f == files[CHOOSE g \in AtPath(path) : TRUE] IN
         IF is_locked(f, t) THEN [res |-> "Locked", reslock |-> f.lock]
         ELSE [res |-> "FileAlreadyExists", reslock |-> NoLock]

\* the lock held on the record stored at a path, NoLock when there is none
HeldAt(path, t) ==
    IF AtPath(path) = {} THEN NoLock
    ELSE HeldLock(files[CHOOSE g \in AtPath(path) : TRUE], t)

PutRelative(c, f, user, target, overwrite, body) ==
    /\ cl[c].pc = "idle"
    /\ UNCHANGED <<leases, multipart, now, files, objects, tokens>>
    /\ IF files[f] = NoFile
       THEN /\ resp' = Answer("PutRelativeFile", f, NoLock, NoLock, body, "NotFound", NoLock)
            /\ UNCHANGED cl
       ELSE LET path == parent_folder(files[f]) \o target
                k == put_relative_check(path, overwrite, now) IN
            IF k.res # "Proceed"
            THEN /\ resp' = [Answer("PutRelativeFile", f, NoLock, NoLock, body, k.res,
                                    k.reslock)
                               EXCEPT !.held = HeldAt(path, now), !.path = path]
                 /\ UNCHANGED cl
            ELSE /\ Unused # {}
                 /\ cl' = [cl EXCEPT ![c] =
                             [Pending("rel_add", "PutRelativeFile", f, NoLock, NoLock, body)
                                EXCEPT !.held = HeldAt(path, now), !.path = path,
                                       !.size = Len(body), !.user = user,
                                       !.newid = FreshIds[CHOOSE i \in Unused :
                                                    \A j \in Unused : i <= j]]]
                 /\ resp' = NoResp

RelReply(c, res) == [Reply(c, res, NoLock) EXCEPT !.path = cl[c].path]

RelAdd(c) ==
    /\ cl[c].pc = "rel_add"
    /\ LET r == PgStore_add_dbfile(cl[c].newid,
                                   DBFile_new(cl[c].path, cl[c].user, cl[c].size)) IN
       IF r.ok
       THEN /\ files' = r.files
            /\ cl' = [cl EXCEPT ![c].pc = "rel_token"]
            /\ resp' = NoResp
       ELSE /\ files' = files
            /\ cl' = [cl EXCEPT ![c] = Idle]
            /\ resp' = RelReply(c, "InternalServerError")
    /\ UNCHANGED <<leases, multipart, now, objects, tokens>>

\* MemStore::add_dbfile: the record is inserted under its id, whatever the
\* paths of the records already stored
MemStore_add_dbfile(id, file) == [ok |-> TRUE, files |-> [files EXCEPT ![id] = file]]

\* the add_dbfile step of handle_put_relative_specific on the in-memory store
MemRelAdd(c) ==
    /\ cl[c].pc = "rel_add"
    /\ LET r == MemStore_add_dbfile(cl[c].newid,
                                    DBFile_new(cl[c].path, cl[c].user, cl[c].size)) IN
       /\ files' = r.files
       /\ cl' = [cl EXCEPT ![c].pc = "rel_token"]
       /\ resp' = NoResp
    /\ UNCHANGED <<leases, multipart, now, objects, tokens>>

\* a create_token that binds every token to the record f1
create_token_Fixed(user_id, file_id) ==
    Append(tokens, [user_id |-> user_id, file_id |-> "f1"])

\* PgStore::create_token: a new row, whose key the database generates
create_token(user_id, file_id) == Append(tokens, [user_id |-> user_id, file_id |-> file_id])

RelToken(c) ==
    /\ cl[c].pc = "rel_token"
    /\ tokens' = create_token(cl[c].user, cl[c].newid)
    /\ cl' = [cl EXCEPT ![c].pc = "rel_upload", ![c].token = Len(tokens')]
    /\ resp' = NoResp
    /\ UNCHANGED <<leases, multipart, now, files, objects>>

RelUpload(c) ==
    /\ cl[c].pc = "rel_upload"
    /\ \E ok \in BOOLEAN :
         IF ok
         THEN /\ objects' = upload(objects, cl[c].path, cl[c].body)
              /\ resp' = [RelReply(c, "Ok") EXCEPT
                             !.url = [id |-> cl[c].newid, token |-> cl[c].token]]
         ELSE /\ objects' = objects
              /\ resp' = RelReply(c, "InternalServerError")
    /\ cl' = [cl EXCEPT ![c] = Idle]
    /\ UNCHANGED <<leases, multipart, now, files, tokens>>

\* ------------------------------------- handle_put_relative_file_suggested
\* X-WOPI-SuggestedTarget values: an extension and a full file name
SugTargets == {<<".", "x">>, <<"a">>}

Digits == <<"0", "1", "2", "3", "4", "5", "6", "7", "8", "9">>

\* u32::to_string
RECURSIVE to_string(_)
to_string(n) ==
    IF n < 10 THEN <<Digits[n + 1]>>
    ELSE to_string(n \div 10) \o <<Digits[(n % 10) + 1]>>

\* the suggestion the search starts from: an extension is put after the
\* name of the base record
first_suggestion(dbfile, suggested_target) ==
    IF suggested_target # <<>> /\ suggested_target[1] = "."
    THEN name(dbfile) \o suggested_target
    ELSE suggested_target

\* the path the search looks up
suggested_path(dbfile, suggestion) == parent_folder(dbfile) \o <<Sep>> \o suggestion

\* handle_put_relative: the base record is read
PutRelativeSuggested(c, f, user, target, body) ==
    /\ cl[c].pc = "idle"
    /\ UNCHANGED <<leases, multipart, now, files, objects, tokens>>
    /\ IF files[f] = NoFile
       THEN /\ resp' = Answer("PutRelativeFile", f, NoLock, NoLock, body, "NotFound", NoLock)
            /\ UNCHANGED cl
       ELSE /\ cl' = [cl EXCEPT ![c] =
                        [Pending("sug_find", "PutRelativeFile", f, NoLock, NoLock, body)
                           EXCEPT !.held = NoLock, !.size = Len(body), !.user = user,
                                  !.suggestion = first_suggestion(files[f], target),
                                  !.counter = 1]]
            /\ resp' = NoResp

\* one turn of the loop: a path that is taken gives the next suggestion, a
\* free one ends the search (the base record's path does not change)
SugFind(c) ==
    /\ cl[c].pc = "sug_find"
    /\ LET path == suggested_path(files[cl[c].file], cl[c].suggestion) IN
       IF AtPath(path) # {}
       THEN cl' = [cl EXCEPT ![c].counter = cl[c].counter + 1,
                             ![c].suggestion =
                                 to_string(cl[c].counter + 1) \o cl[c].suggestion]
       ELSE /\ Unused # {}
            /\ cl' = [cl EXCEPT ![c].pc = "sug_add", ![c].path = path,
                                ![c].newid = FreshIds[CHOOSE i \in Unused :
                                                         \A j \in Unused : i <= j]]
    /\ resp' = NoResp
    /\ UNCHANGED <<leases, multipart, now, files, objects, tokens>>

SugAdd(c) ==
    /\ cl[c].pc = "sug_add"
    /\ LET r == PgStore_add_dbfile(cl[c].newid,
                                   DBFile_new(cl[c].path, cl[c].user, cl[c].size)) IN
       IF r.ok
       THEN /\ files' = r.files
            /\ cl' = [cl EXCEPT ![c].pc = "sug_upload"]
            /\ resp' = NoResp
       ELSE /\ files' = files
            /\ cl' = [cl EXCEPT ![c] = Idle]
            /\ resp' = RelReply(c, "InternalServerError")
    /\ UNCHANGED <<leases, multipart, now, objects, tokens>>

\* the upload comes before the token; a failed upload leaves the record
SugUpload(c) ==
    /\ cl[c].pc = "sug_upload"
    /\ \E ok \in BOOLEAN :
         IF ok
         THEN /\ objects' = upload(objects, cl[c].path, cl[c].body)
              /\ cl' = [cl EXCEPT ![c].pc = "sug_token"]
              /\ resp' = NoResp
         ELSE /\ objects' = objects
              /\ cl' = [cl EXCEPT ![c] = Idle]
              /\ resp' = RelReply(c, "InternalServerError")
    /\ UNCHANGED <<leases, multipart, now, files, tokens>>

SugToken(c) ==
    /\ cl[c].pc = "sug_token"
    /\ tokens' = create_token(cl[c].user, cl[c].newid)
    /\ resp' = [RelReply(c, "Ok") EXCEPT
                   !.url = [id |-> cl[c].newid, token |-> Len(tokens')]]
    /\ cl' = [cl EXCEPT ![c] = Idle]
    /\ UNCHANGED <<leases, multipart, now, files, objects>>

\* ------------------------------------------------------- MemStore::lock
\* one critical section under the map's mutex
MemStore_lock(file, lock, t) ==
    IF file.lock = NoLock
    THEN [res |-> "Ok", err |-> NoLock, file |-> unchecked_lock(file, lock, t)]
    ELSE IF file.lock_expires_at # NoTime /\ file.lock_expires_at < t
    THEN [res |-> "Ok", err |-> NoLock, file |-> unchecked_lock(file, lock, t)]
    ELSE IF file.lock = lock
    THEN [res |-> "Ok", err |-> NoLock, file |-> unchecked_extend_lock(file, t)]
    ELSE [res |-> "Locked", err |-> file.lock, file |-> file]

MemLock(c, f, lock) ==
    /\ cl[c].pc = "idle"
    /\ IF files[f] = NoFile
       THEN /\ resp' = Answer("Lock", f, lock, NoLock, <<>>, "NotFound", NoLock)
            /\ files' = files
       ELSE LET r == MemStore_lock(files[f], lock, now)
                w == handle_lock(r) IN
            /\ resp' = Answer("Lock", f, lock, NoLock, <<>>, w.res, w.reslock)
            /\ files' = [files EXCEPT ![f] = r.file]
    /\ UNCHANGED <<leases, multipart, now, objects, tokens, cl>>

\* MemStore::unlock and MemStore::extend_lock are todo!(): the request panics
MemUnlock(c, f, lock) ==
    /\ cl[c].pc = "idle"
    /\ resp' = Answer("Unlock", f, lock, NoLock, <<>>, "Panic", NoLock)
    /\ UNCHANGED <<leases, multipart, now, files, objects, tokens, cl>>

MemExtendLock(c, f, lock) ==
    /\ cl[c].pc = "idle"
    /\ resp' = Answer("ExtendLock", f, lock, NoLock, <<>>, "Panic", NoLock)
    /\ UNCHANGED <<leases, multipart, now, files, objects, tokens, cl>>

\* ------------------------------------------------- handle_check_file_info
handle_check_file_info(file, user_id) ==
    [base_file_name |-> name(file), owner_id |-> user_id, user_id |-> user_id,
     size |-> file.size]

CheckFileInfoAnswer(f, user) ==
    IF files[f] = NoFile
    THEN Answer("CheckFileInfo", f, NoLock, NoLock, <<>>, "NotFound", NoLock)
    ELSE [Answer("CheckFileInfo", f, NoLock, NoLock, <<>>, "Ok", NoLock)
            EXCEPT !.info = handle_check_file_info(files[f], user)]

CheckFileInfo(c, f, user) ==
    /\ cl[c].pc = "idle"
    /\ resp' = CheckFileInfoAnswer(f, user)
    /\ UNCHANGED <<leases, multipart, now, files, objects, tokens, cl>>

\* -------------------------------------------------------- handle_get_file
GetFile(c, f) ==
    /\ cl[c].pc = "idle"
    /\ UNCHANGED <<leases, multipart, now, files, objects, tokens>>
    /\ IF files[f] = NoFile
       THEN /\ resp' = Answer("GetFile", f, NoLock, NoLock, <<>>, "NotFound", NoLock)
            /\ UNCHANGED cl
       ELSE /\ cl' = [cl EXCEPT ![c] = Pending("get_download", "GetFile", f, NoLock,
                                               NoLock, <<>>)]
            /\ resp' = NoResp

\* FileStorage::download returns the bytes stored at the key, or fails
download(store, path) ==
    IF path \in DOMAIN store THEN [ok |-> TRUE, data |-> store[path]]
    ELSE [ok |-> FALSE, data |-> <<>>]

GetFileDownload(c) ==
    /\ cl[c].pc = "get_download"
    /\ \E ok \in BOOLEAN :
         LET d == download(objects, cl[c].path) IN
         resp' = IF ok /\ d.ok THEN [Reply(c, "Ok", NoLock) EXCEPT !.body = d.data]
                 ELSE Reply(c, "InternalServerError", NoLock)
    /\ cl' = [cl EXCEPT ![c] = Idle]
    /\ UNCHANGED <<leases, multipart, now, files, objects, tokens>>

\* ------------------------------------------------------- access tokens
\* the row of a token that was deleted; the database never issues a key twice
NoRow == [user_id |-> "-", file_id |-> "-"]
None == [token |-> NoToken, file_id |-> "-", user_id |-> "-"]

\* delete from access_token where token = $1
revoke_token(token) ==
    IF token \in DOMAIN tokens THEN [tokens EXCEPT ![token] = NoRow] ELSE tokens

\* select token, user_id, file_id from access_token where token = $1
get_token_context(token) ==
    IF token \in DOMAIN tokens /\ tokens[token] # NoRow
    THEN [token |-> token, file_id |-> tokens[token].file_id,
          user_id |-> tokens[token].user_id]
    ELSE None

\* the extractor WopiAuth: the status it rejects with, or the token's context
WopiAuth(access_token) ==
    IF access_token = NoToken THEN [status |-> "Unauthorized", context |-> None]
    ELSE IF access_token = Malformed THEN [status |-> "BadRequest", context |-> None]
    ELSE LET c == get_token_context(access_token) IN
         IF c = None THEN [status |-> "Unauthorized", context |-> None]
         ELSE [status |-> "Ok", context |-> c]

\* the middleware of the router: the claims of the Token cookie's JWT
NoClaims == "-"
Subjects == {"u1", "u2"}
auth(claims) == IF claims = NoClaims THEN "Unauthorized" ELSE "Ok"

MaxTokens == 2
QueryTokens == {NoToken, Malformed} \cup (1..MaxTokens)
AuthIds == {"f1", "f2", "f9"}

CreateToken(user, f) ==
    /\ Len(tokens) < MaxTokens
    /\ files[f] # NoFile
    /\ tokens' = create_token(user, f)
    /\ resp' = NoResp
    /\ UNCHANGED <<leases, multipart, now, files, objects, cl>>

RevokeToken(token) ==
    /\ tokens' = revoke_token(token)
    /\ resp' = NoResp
    /\ UNCHANGED <<leases, multipart, now, files, objects, cl>>

\* GET /api/wopi/files/:id: the handler takes the claims and the request;
\* the access_token of the query is not among its extractors
wopi_check_file_info(c, claims, access_token, f) ==
    /\ cl[c].pc = "idle"
    /\ resp' = [(IF auth(claims) # "Ok"
                 THEN Answer("CheckFileInfo", f, NoLock, NoLock, <<>>, auth(claims), NoLock)
                 ELSE CheckFileInfoAnswer(f, claims))
                  EXCEPT !.user = claims, !.access_token = access_token]
    /\ UNCHANGED <<leases, multipart, now, files, objects, tokens, cl>>

\* GET /api/wopi/files/:id/contents
wopi_file_content(c, claims, access_token, f) ==
    /\ cl[c].pc = "idle"
    /\ UNCHANGED <<leases, multipart, now, files, objects, tokens>>
    /\ IF auth(claims) # "Ok" \/ files[f] = NoFile
       THEN /\ resp' = [Answer("GetFile", f, NoLock, NoLock, <<>>,
                               IF auth(claims) # "Ok" THEN auth(claims) ELSE "NotFound",
                               NoLock)
                          EXCEPT !.user = claims, !.access_token = access_token]
            /\ UNCHANGED cl
       ELSE /\ cl' = [cl EXCEPT ![c] =
                        [Pending("get_download", "GetFile", f, NoLock, NoLock, <<>>)
                           EXCEPT !.user = claims, !.access_token = access_token]]
            /\ resp' = NoResp

\* --------------------------------------------------------- upload leases
MaxLeaseTime == 365
MAX_FILE_SIZE == 1000000000
CHUNK_SIZE == 10000000
LeaseTickSteps == {LeaseTTL \div 2, LeaseTTL \div 2 + 1}
UploadNames == {<<"a">>}
UploadSizes == {1}
UploadOwners == {"u1"}

\* the clock of the upload flow, whose deadlines are hours away
TickLease ==
    /\ \E d \in LeaseTickSteps : now + d <= MaxLeaseTime /\ now' = now + d
    /\ resp' = NoResp
    /\ UNCHANGED <<files, objects, tokens, leases, multipart, cl>>

UploadLease_template(t) ==
    [owner |-> "-", name |-> <<"template-file-name">>, size |-> -1, s3_upload_id |-> 0,
     completed |-> FALSE, expires_at |-> t + LeaseTTL]

\* the default of the upload_lease table's completed column
CompletedDefault == FALSE

\* PgStore::add: the insert names every column but completed and created_at
PgStore_add(lease) == [lease EXCEPT !.completed = CompletedDefault]

\* MemStore::add keeps the lease it is given
MemStore_add(lease) == lease

\* the lease ids that are neither stored nor about to be
FreeLeases == {i \in 1..Len(LeaseIds) : leases[LeaseIds[i]] = NoLease}

\* the response of a request of the upload flow
LeaseAnswer(op, id, upload_id, res, lease, at) ==
    [NoResp EXCEPT !.op = op, !.file = id, !.upload_id = upload_id, !.res = res,
                   !.lease = lease, !.at = at]

LeasePending(pc, op, id, upload_id, lease, user) ==
    [Idle EXCEPT !.pc = pc, !.op = op, !.file = id, !.upload_id = upload_id,
                 !.lease = lease, !.at = now, !.user = user]

\* the lease that post hands to the store, named user\name
post_lease(user, upload_name, size, t) ==
    [UploadLease_template(t) EXCEPT !.owner = user, !.size = size,
                                    !.name = <<user, Sep>> \o upload_name]

\* the first step of post: the lease is stored under a fresh id
PostAdd(c, user, stored) ==
    /\ cl[c].pc = "idle"
    /\ FreeLeases # {}
    /\ LET id == LeaseIds[CHOOSE i \in FreeLeases : \A j \in FreeLeases : i <= j] IN
       /\ leases' = [leases EXCEPT ![id] = stored]
       /\ cl' = [cl EXCEPT ![c] = LeasePending("post_presign", "RequestUpload", id, 0,
                                               stored, user)]
    /\ resp' = NoResp
    /\ UNCHANGED <<now, files, objects, tokens, multipart>>

\* a post that answers 200 to a size above MAX_FILE_SIZE
PostTooLarge_Accepts(c, size) ==
    /\ cl[c].pc = "idle"
    /\ resp' = [LeaseAnswer("RequestUpload", "-", 0, "Ok", NoLease, now)
                 EXCEPT !.size = size]
    /\ UNCHANGED <<now, files, objects, tokens, leases, multipart, cl>>

\* post turns away a size above MAX_FILE_SIZE before it touches the store
PostTooLarge(c, size) ==
    /\ cl[c].pc = "idle"
    /\ resp' = [LeaseAnswer("RequestUpload", "-", 0, "Forbidden", NoLease, now)
                 EXCEPT !.size = size]
    /\ UNCHANGED <<now, files, objects, tokens, leases, multipart, cl>>

Post(c, user, upload_name, size) ==
    IF size > MAX_FILE_SIZE
    THEN PostTooLarge(c, size)
    ELSE PostAdd(c, user, PgStore_add(post_lease(user, upload_name, size, now)))

MemPost(c, user, upload_name, size) ==
    IF size > MAX_FILE_SIZE
    THEN PostTooLarge(c, size)
    ELSE PostAdd(c, user, MemStore_add(post_lease(user, upload_name, size, now)))

\* a chunk count without the correction for a last chunk of size 0
chunk_count_Uncorrected(file_size, chunk_size) == (file_size \div chunk_size) + 1

\* the number of parts get_presigned_upload_urls presigns
chunk_count(file_size, chunk_size) ==
    LET count == (file_size \div chunk_size) + 1 IN
    IF file_size % chunk_size = 0 THEN count - 1 ELSE count

\* the part numbers of the presigned urls, in the order they are pushed
upload_parts(file_size, chunk_size) ==
    [chunk_index \in 1..chunk_count(file_size, chunk_size) |-> chunk_index]

\* FileStorage::get_presigned_upload_urls opens a multipart session for the key
get_presigned_upload_urls(sessions, key) ==
    Append(sessions, [key |-> key, state |-> "open", by |-> "-", of |-> "-",
                      parts |-> <<>>])

PostPresign(c) ==
    /\ cl[c].pc = "post_presign"
    /\ \E ok \in BOOLEAN :
         IF ok
         THEN /\ multipart' = [get_presigned_upload_urls(multipart, cl[c].lease.name)
                                   EXCEPT ![Len(multipart) + 1].of = cl[c].file]
              /\ resp' = [LeaseAnswer("RequestUpload", cl[c].file, Len(multipart'), "Ok",
                                      cl[c].lease, cl[c].at)
                           EXCEPT !.size = cl[c].lease.size,
                                  !.uris = upload_parts(cl[c].lease.size, CHUNK_SIZE)]
         ELSE /\ multipart' = multipart
              /\ resp' = [LeaseAnswer("RequestUpload", cl[c].file, 0, "StorageError",
                                      cl[c].lease, cl[c].at)
                           EXCEPT !.size = cl[c].lease.size]
    /\ cl' = [cl EXCEPT ![c] = Idle]
    /\ UNCHANGED <<now, files, objects, tokens, leases>>

\* a mark_completed that turns a lease away once it is completed
PgStore_mark_completed_Once(lease, t) ==
    IF lease = NoLease THEN "None"
    ELSE IF t > lease.expires_at \/ lease.completed THEN "LeaseExpired"
    ELSE "Update"

\* PgStore::mark_completed, up to its update: the select and the deadline
PgStore_mark_completed(lease, t) ==
    IF lease = NoLease THEN "None"
    ELSE IF t > lease.expires_at THEN "LeaseExpired"
    ELSE "Update"

\* the status of an UploadAPIError
finish_upload_status(r) ==
    IF r = "None" THEN "NotFound" ELSE IF r = "LeaseExpired" THEN "Gone" ELSE r

FinishUpload(c, id, upload_id) ==
    /\ cl[c].pc = "idle"
    /\ LET r == PgStore_mark_completed(leases[id], now) IN
       IF r = "Update"
       THEN /\ cl' = [cl EXCEPT ![c] = LeasePending("finish_mark", "FinishUpload", id,
                                                    upload_id, leases[id], "-")]
            /\ resp' = NoResp
       ELSE /\ resp' = LeaseAnswer("FinishUpload", id, upload_id, finish_upload_status(r),
                                   leases[id], now)
            /\ UNCHANGED cl
    /\ UNCHANGED <<now, files, objects, tokens, leases, multipart>>

\* update upload_lease set completed = true where id = $1 returning ...
FinishMark(c) ==
    /\ cl[c].pc = "finish_mark"
    /\ IF leases[cl[c].file] = NoLease
       THEN /\ resp' = LeaseAnswer("FinishUpload", cl[c].file, cl[c].upload_id, "NotFound",
                                   cl[c].lease, cl[c].at)
            /\ cl' = [cl EXCEPT ![c] = Idle]
            /\ UNCHANGED leases
       ELSE /\ leases' = [leases EXCEPT ![cl[c].file].completed = TRUE]
            /\ cl' = [cl EXCEPT ![c].pc = "finish_complete"]
            /\ resp' = NoResp
    /\ UNCHANGED <<now, files, objects, tokens, multipart>>

\* the bytes of an object are kept as runs [byte, count]; the object that
\* complete_multipart_upload builds is the parts that list_parts returned,
\* in the order of their part numbers
RECURSIVE assemble(_)
assemble(parts) ==
    IF DOMAIN parts = {} THEN <<>>
    ELSE LET n == CHOOSE m \in DOMAIN parts : \A k \in DOMAIN parts : m <= k IN
         parts[n] \o assemble([k \in DOMAIN parts \ {n} |-> parts[k]])

\* FileStorage::finish_multipart_upload: list_parts, then
\* complete_multipart_upload, of the session the request names
finish_multipart_upload(sessions, key, upload_id) ==
    IF /\ upload_id \in DOMAIN sessions
       /\ sessions[upload_id].key = key
       /\ sessions[upload_id].state = "open"
    THEN [ok |-> TRUE, sessions |-> [sessions EXCEPT ![upload_id].state = "completed"]]
    ELSE [ok |-> FALSE, sessions |-> sessions]

\* the storage call of finish_upload; its error is returned with `?`
FinishComplete(c) ==
    /\ cl[c].pc = "finish_complete"
    /\ LET r == finish_multipart_upload(multipart, cl[c].lease.name, cl[c].upload_id) IN
       \E ok \in BOOLEAN :
          IF ok /\ r.ok
          THEN /\ multipart' = [r.sessions EXCEPT ![cl[c].upload_id].by = cl[c].file]
               /\ objects' = upload(objects, cl[c].lease.name,
                                    assemble(multipart[cl[c].upload_id].parts))
               /\ resp' = LeaseAnswer("FinishUpload", cl[c].file, cl[c].upload_id, "Ok",
                                      cl[c].lease, cl[c].at)
          ELSE /\ multipart' = multipart
               /\ objects' = objects
               /\ resp' = LeaseAnswer("FinishUpload", cl[c].file, cl[c].upload_id,
                                      "StorageError", cl[c].lease, cl[c].at)
    /\ cl' = [cl EXCEPT ![c] = Idle]
    /\ UNCHANGED <<now, files, tokens, leases>>

\* MemStore::mark_completed: one critical section, no look at the deadline
MemStore_mark_completed(lease, t) ==
    IF lease = NoLease THEN "None" ELSE "Update"

MemFinishUpload(c, id, upload_id) ==
    /\ cl[c].pc = "idle"
    /\ LET r == MemStore_mark_completed(leases[id], now) IN
       IF r = "Update"
       THEN /\ leases' = [leases EXCEPT ![id].completed = TRUE]
            /\ cl' = [cl EXCEPT ![c] = LeasePending("finish_complete", "FinishUpload", id,
                                                    upload_id, leases[id], "-")]
            /\ resp' = NoResp
       ELSE /\ resp' = LeaseAnswer("FinishUpload", id, upload_id, finish_upload_status(r),
                                   leases[id], now)
            /\ UNCHANGED <<cl, leases>>
    /\ UNCHANGED <<now, files, objects, tokens, multipart>>

UploadIds == 1..Len(LeaseIds)

\* the object store holds at most this many multipart sessions
MaxSessions == 3

\* MemStore::get
MemStore_get(id) == leases[id]

\* get: the lease is looked up, nothing of it is examined
Get(c, id) ==
    /\ cl[c].pc = "idle"
    /\ Len(multipart) < MaxSessions
    /\ LET lease == MemStore_get(id) IN
       IF lease = NoLease
       THEN /\ resp' = LeaseAnswer("ResumeUpload", id, 0, "NotFound", lease, now)
            /\ UNCHANGED cl
       ELSE /\ cl' = [cl EXCEPT ![c] = LeasePending("get_presign", "ResumeUpload", id, 0,
                                                    lease, "-")]
            /\ resp' = NoResp
    /\ UNCHANGED <<now, files, objects, tokens, leases, multipart>>

\* get: get_presigned_upload_urls, which opens a multipart session
GetPresign(c) ==
    /\ cl[c].pc = "get_presign"
    /\ \E ok \in BOOLEAN :
         IF ok
         THEN /\ multipart' = [get_presigned_upload_urls(multipart, cl[c].lease.name)
                                   EXCEPT ![Len(multipart) + 1].of = cl[c].file]
              /\ resp' = [LeaseAnswer("ResumeUpload", cl[c].file, Len(multipart'), "Ok",
                                      cl[c].lease, cl[c].at)
                           EXCEPT !.size = cl[c].lease.size,
                                  !.uris = upload_parts(cl[c].lease.size, CHUNK_SIZE)]
         ELSE /\ multipart' = multipart
              /\ resp' = [LeaseAnswer("ResumeUpload", cl[c].file, 0, "StorageError",
                                      cl[c].lease, cl[c].at)
                           EXCEPT !.size = cl[c].lease.size]
    /\ cl' = [cl EXCEPT ![c] = Idle]
    /\ UNCHANGED <<now, files, objects, tokens, leases>>

\* ------------------------------------------------------------- userfiles
\* Userfile.size of a folder
NoSize == -1

\* the uploads of the listing's model: a plain name, a name of two chunks, a
\* name in a folder, a name whose folder is called like the user, and a
\* second user
FileUploads ==
    {[user |-> "u1", name |-> <<"a">>, size |-> 1],
     [user |-> "u1", name |-> <<"b">>, size |-> CHUNK_SIZE + 1],
     [user |-> "u1", name |-> <<"d", Sep, "a">>, size |-> 1],
     [user |-> "u1", name |-> <<"u1", Sep, "a">>, size |-> 1],
     [user |-> "u2", name |-> <<"a">>, size |-> 1]}

ListUsers == {"u1", "u2"}

\* base_path values of GET /api/filesystem
BasePaths == {<<>>, <<"d", Sep>>, <<"u1", Sep>>}

\* the values of the bytes a client uploads
PartBytes == {0, 1}

\* the chunk a client cuts for a part number of a file of the given size
chunk(size, n, byte) ==
    <<[byte |-> byte,
       count |-> IF n < chunk_count(size, CHUNK_SIZE) THEN CHUNK_SIZE
                 ELSE size - (n - 1) * CHUNK_SIZE]>>

\* a client PUTs a chunk to the presigned url of a part of an open session
PutPart(u, n, byte) ==
    /\ u \in DOMAIN multipart
    /\ multipart[u].state = "open"
    /\ leases[multipart[u].of] # NoLease
    /\ n \in DOMAIN upload_parts(leases[multipart[u].of].size, CHUNK_SIZE)
    /\ multipart' = [multipart EXCEPT ![u].parts =
                        [k \in DOMAIN @ \cup {n} |->
                           IF k = n THEN chunk(leases[multipart[u].of].size, n, byte)
                           ELSE @[k]]]
    /\ resp' = NoResp
    /\ UNCHANGED <<now, files, objects, tokens, leases, cl>>

\* the number of bytes of an object
RECURSIVE content_length(_)
content_length(body) ==
    IF body = <<>> THEN 0 ELSE Head(body).count + content_length(Tail(body))

\* str::starts_with
starts_with(str, prefix) ==
    Len(str) >= Len(prefix) /\ SubSeq(str, 1, Len(prefix)) = prefix

\* the index of the first delimiter of a string, 0 when it has none
find(str, delimiter) ==
    IF \E i \in 1..Len(str) : str[i] = delimiter
    THEN CHOOSE i \in 1..Len(str) :
            str[i] = delimiter /\ \A j \in 1..(i - 1) : str[j] # delimiter
    ELSE 0

\* S3Store::list: list_objects_v2 with a prefix and the delimiter \; a key
\* without delimiter after the prefix is an object of the answer, the others
\* are rolled up into common prefixes, which end with the delimiter
S3Store_list(store, user_id, base_path) ==
    LET matching == {k \in DOMAIN store : starts_with(k, base_path)}
        rest(k) == SubSeq(k, Len(base_path) + 1, Len(k))
        contents == {k \in matching : find(rest(k), Sep) = 0}
        common_prefixes == {SubSeq(k, 1, Len(base_path) + find(rest(k), Sep)) :
                               k \in matching \ contents}
    IN  {[name |-> k, owner |-> user_id, size |-> content_length(store[k]),
          is_folder |-> FALSE] : k \in contents}
        \cup {[name |-> prefix, owner |-> user_id, size |-> NoSize,
               is_folder |-> TRUE] : prefix \in common_prefixes}

build_path(user_id, path) == <<user_id, Sep>> \o path

\* String::split_off: the string from index at on
split_off(str, at) == SubSeq(str, at + 1, Len(str))

\* a get_userfiles that returns the names as the object store lists them
get_userfiles_Unstripped(store, user_id, base_path) ==
    S3Store_list(store, user_id, build_path(user_id, base_path))

get_userfiles(store, user_id, base_path) ==
    LET path == build_path(user_id, base_path)
        listed == S3Store_list(store, user_id, path) IN
    {[f EXCEPT !.name = split_off(f.name, Len(build_path(user_id, <<>>)))] :
        f \in listed}

\* GET /api/filesystem?base_path=
List(c, user, base_path) ==
    /\ cl[c].pc = "idle"
    /\ resp' = [NoResp EXCEPT !.op = "List", !.user = user, !.path = base_path,
                              !.res = "Ok",
                              !.listing = get_userfiles(objects, user, base_path)]
    /\ UNCHANGED <<now, files, objects, tokens, leases, multipart, cl>>

\* -------------------------------------------------------------- sessions
\* Claims::new: the token expires six hours after it was made
JwtTTL == 360

\* Validation::default(): the leeway of the check of exp, one minute
Leeway == 1

NoCookie == [key |-> "-", sub |-> "-", exp |-> NoTime]

\* create_jwt: the claims, signed with the server's secret
create_jwt(id, t) == [key |-> "secret", sub |-> id, exp |-> t + JwtTTL]

\* validate_jwt: the signature and exp are checked, the subject comes back
validate_jwt(jwt, t) ==
    IF jwt.key = "secret" /\ jwt.exp > t - Leeway THEN jwt.sub ELSE NoClaims

\* start_session_response: the Set-Cookie header of a register or login answer
start_session_response(id, t) == [name |-> "__Host-Token", value |-> create_jwt(id, t)]

\* CookieJar::get
CookieJar_get(cookie_jar, cookie_name) ==
    IF \E k \in cookie_jar : k.name = cookie_name
    THEN (CHOOSE k \in cookie_jar : k.name = cookie_name).value
    ELSE NoCookie

\* the middleware on the cookies of a request: the claims it hands to the
\* handler, NoClaims when it answers 401
auth_claims(cookie_jar, t) ==
    LET token_cookie == CookieJar_get(cookie_jar, "Token") IN
    IF token_cookie = NoCookie THEN NoClaims ELSE validate_jwt(token_cookie, t)

\* POST /api/register and POST /api/login; the client keeps the cookie of a
\* successful answer
StartSession(c, op, user) ==
    /\ cl[c].pc = "idle"
    /\ \E ok \in BOOLEAN :
         IF ok
         THEN /\ cl' = [cl EXCEPT ![c].cookie = {start_session_response(user, now)}]
              /\ resp' = [NoResp EXCEPT !.op = op, !.res = "Ok", !.user = user,
                                        !.at = now]
         ELSE /\ cl' = cl
              /\ resp' = [NoResp EXCEPT !.op = op, !.res = "Conflict", !.user = user,
                                        !.at = now]
    /\ UNCHANGED <<now, files, objects, tokens, leases, multipart>>

\* a request to a route behind the middleware; user is the subject the
\* handler ran for
Protected(op, cookie_jar) ==
    LET claims == auth_claims(cookie_jar, now) IN
    /\ resp' = [NoResp EXCEPT !.op = op, !.res = auth(claims), !.user = claims,
                              !.at = now]
    /\ UNCHANGED <<now, files, objects, tokens, leases, multipart, cl>>

\* TestClient::request: the cookie the client kept is sent along
SessionRequest(c) ==
    /\ cl[c].pc = "idle"
    /\ cl[c].cookie # {}
    /\ Protected("SessionRequest", cl[c].cookie)

\* cookies that no register or login answer has set: none, and a token
\* signed with another key
OtherJars ==
    {{}, {[name |-> "Token", value |-> [key |-> "other", sub |-> "u1", exp |-> MaxLeaseTime]]},
     {[name |-> "__Host-Token",
       value |-> [key |-> "other", sub |-> "u1", exp |-> MaxLeaseTime]]}}

RawRequest(c, cookie_jar) ==
    /\ cl[c].pc = "idle"
    /\ Protected("RawRequest", cookie_jar)

MaybeLock == Tokens \cup {NoLock}

\* the lock state machine on the SQL store
Next ==
    \/ Tick
    \/ \E c \in Clients, f \in RequestIds, lock \in Tokens : Lock(c, f, lock)
    \/ \E c \in Clients : LockUpdate(c)
    \/ \E c \in Clients, f \in RequestIds, lock \in Tokens : Unlock(c, f, lock)
    \/ \E c \in Clients : UnlockUpdate(c)
    \/ \E c \in Clients, f \in RequestIds, lock \in Tokens : ExtendLock(c, f, lock)
    \/ \E c \in Clients : ExtendUpdate(c)
    \/ \E c \in Clients, f \in RequestIds, old \in Tokens, new \in Tokens :
          UnlockAndRelock(c, f, old, new)
    \/ \E c \in Clients, f \in RequestIds : GetLock(c, f)

Spec == Init /\ [][Next]_vars

\* writers against the lock state machine
NextPut ==
    \/ Tick
    \/ \E c \in Clients, f \in RequestIds, lock \in Tokens : Lock(c, f, lock)
    \/ \E c \in Clients : LockUpdate(c)
    \/ \E c \in Clients, f \in RequestIds, lock \in MaybeLock, body \in Bodies :
          PutFile(c, f, lock, body)
    \/ \E c \in Clients : PutFileUpdate(c)
    \/ \E c \in Clients : PutFileUpload(c)

SpecPut == Init /\ [][NextPut]_vars

\* PutRelativeFile against the lock state machine
NextRel ==
    \/ Tick
    \/ \E c \in Clients, f \in RequestIds, lock \in Tokens : Lock(c, f, lock)
    \/ \E c \in Clients : LockUpdate(c)
    \/ \E c \in Clients, f \in RequestIds, user \in Users, target \in RelTargets,
          overwrite \in BOOLEAN, body \in RelBodies :
          PutRelative(c, f, user, target, overwrite, body)
    \/ \E c \in Clients : RelAdd(c)
    \/ \E c \in Clients : RelToken(c)
    \/ \E c \in Clients : RelUpload(c)

SpecRel == InitWith({<<1>>}) /\ [][NextRel]_vars

\* PutRelativeFile in both modes
NextNew ==
    \/ \E c \in Clients, f \in RequestIds, user \in Users, target \in RelTargets,
          overwrite \in BOOLEAN, body \in RelBodies :
          PutRelative(c, f, user, target, overwrite, body)
    \/ \E c \in Clients : RelAdd(c)
    \/ \E c \in Clients : RelToken(c)
    \/ \E c \in Clients : RelUpload(c)
    \/ \E c \in Clients, f \in RequestIds, user \in Users, target \in SugTargets,
          body \in RelBodies :
          PutRelativeSuggested(c, f, user, target, body)
    \/ \E c \in Clients : SugFind(c)
    \/ \E c \in Clients : SugAdd(c)
    \/ \E c \in Clients : SugUpload(c)
    \/ \E c \in Clients : SugToken(c)

SpecNew == InitWith({<<1>>}) /\ [][NextNew]_vars

\* PutRelativeFile in Specific mode with X-WOPI-OverwriteRelativeTarget, the
\* records kept by the in-memory store
NextNewMem ==
    \/ \E c \in Clients, f \in RequestIds, user \in Users, target \in RelTargets,
          body \in RelBodies :
          PutRelative(c, f, user, target, TRUE, body)
    \/ \E c \in Clients : MemRelAdd(c)
    \/ \E c \in Clients : RelToken(c)
    \/ \E c \in Clients : RelUpload(c)

SpecNewMem == InitWith({<<1>>}) /\ [][NextNewMem]_vars

\* PutRelativeFile in Specific mode without X-WOPI-OverwriteRelativeTarget
NextSpecific ==
    \/ Tick
    \/ \E c \in Clients, f \in RequestIds, lock \in Tokens : Lock(c, f, lock)
    \/ \E c \in Clients : LockUpdate(c)
    \/ \E c \in Clients, f \in RequestIds, user \in Users, target \in RelTargets,
          body \in RelBodies :
          PutRelative(c, f, user, target, FALSE, body)
    \/ \E c \in Clients : RelAdd(c)
    \/ \E c \in Clients : RelToken(c)
    \/ \E c \in Clients : RelUpload(c)

SpecSpecific == InitWith({<<1>>}) /\ [][NextSpecific]_vars

\* the lock state machine on the in-memory store
NextMem ==
    \/ Tick
    \/ \E c \in Clients, f \in RequestIds, lock \in Tokens : MemLock(c, f, lock)
    \/ \E c \in Clients, f \in RequestIds, lock \in Tokens : MemUnlock(c, f, lock)
    \/ \E c \in Clients, f \in RequestIds, lock \in Tokens : MemExtendLock(c, f, lock)
    \/ \E c \in Clients, f \in RequestIds : GetLock(c, f)

SpecMem == Init /\ [][NextMem]_vars

\* one request at a time: every WOPI operation, no two of them overlapping
Solo == "c1"

NextSeq ==
    \/ Tick
    \/ \E f \in RequestIds, lock \in Tokens : Lock(Solo, f, lock)
    \/ LockUpdate(Solo)
    \/ \E f \in RequestIds, lock \in Tokens : Unlock(Solo, f, lock)
    \/ UnlockUpdate(Solo)
    \/ \E f \in RequestIds, lock \in Tokens : ExtendLock(Solo, f, lock)
    \/ ExtendUpdate(Solo)
    \/ \E f \in RequestIds, old \in Tokens, new \in Tokens :
          UnlockAndRelock(Solo, f, old, new)
    \/ \E f \in RequestIds : GetLock(Solo, f)
    \/ \E f \in RequestIds, lock \in MaybeLock, body \in Bodies :
          PutFile(Solo, f, lock, body)
    \/ PutFileUpdate(Solo)
    \/ PutFileUpload(Solo)
    \/ \E f \in RequestIds, user \in Users : CheckFileInfo(Solo, f, user)
    \/ \E f \in RequestIds : GetFile(Solo, f)
    \/ GetFileDownload(Solo)

SpecSeq == Init /\ [][NextSeq]_vars

\* the two stores side by side: the same calls, at the same times, on a copy
\* of the same file record and of the same lease each
PgFile == "f1"
MemFile == "f2"
PgLease == "l1"
MemLease == "l2"

InitStores ==
    /\ now = 0
    /\ files = [f \in FileIds |->
                  IF f \in {PgFile, MemFile} THEN DBFile_new(BasePath, "u1", 1) ELSE NoFile]
    /\ objects = [p \in {BasePath} |-> <<1>>]
    /\ tokens = <<>>
    /\ leases = [l \in LeaseKeys |-> post_lease("u1", <<"a">>, 1, 0)]
    /\ multipart = <<>>
    /\ cl = [c \in Clients |-> Idle]
    /\ resp = NoResp

\* DBFileStore::lock on both stores
StoresLock(lock) ==
    LET p == PgStore_lock(files[PgFile], lock, now)
        m == MemStore_lock(files[MemFile], lock, now) IN
    /\ files' = [files EXCEPT ![PgFile] = p.file, ![MemFile] = m.file]
    /\ resp' = [NoResp EXCEPT !.op = "lock", !.lock = lock, !.res = p.res,
                              !.reslock = p.err, !.at = now]
    /\ UNCHANGED <<now, objects, tokens, leases, multipart, cl>>

\* UploadLeaseStore::mark_completed on both stores
StoresMarkCompleted ==
    LET p == PgStore_mark_completed(leases[PgLease], now)
        m == MemStore_mark_completed(leases[MemLease], now) IN
    /\ leases' = [leases EXCEPT
                     ![PgLease].completed = IF p = "Update" THEN TRUE ELSE @,
                     ![MemLease].completed = IF m = "Update" THEN TRUE ELSE @]
    /\ resp' = [NoResp EXCEPT !.op = "mark_completed", !.res = p, !.at = now]
    /\ UNCHANGED <<now, files, objects, tokens, multipart, cl>>

NextStores ==
    \/ Tick
    \/ TickLease
    \/ \E lock \in Tokens : StoresLock(lock)
    \/ StoresMarkCompleted

SpecStores == InitStores /\ [][NextStores]_vars

\* POST /api/files/upload/finish: the route takes the claims of the caller
\* from the middleware; the handler is given the request alone
finish_upload(c, claims, id, upload_id) ==
    IF auth(claims) # "Ok"
    THEN /\ cl[c].pc = "idle"
         /\ resp' = LeaseAnswer("FinishUpload", id, upload_id, auth(claims), NoLease, now)
         /\ UNCHANGED <<now, files, objects, tokens, leases, multipart, cl>>
    ELSE MemFinishUpload(c, id, upload_id)

\* POST /api/files/upload
upload_file_request(c, claims, upload_name, size) ==
    IF auth(claims) # "Ok"
    THEN /\ cl[c].pc = "idle"
         /\ resp' = LeaseAnswer("RequestUpload", "-", 0, auth(claims), NoLease, now)
         /\ UNCHANGED <<now, files, objects, tokens, leases, multipart, cl>>
    ELSE MemPost(c, claims, upload_name, size)

\* the upload flow behind the router, for two users
NextOwner ==
    \/ \E claims \in Subjects \cup {NoClaims}, n \in UploadNames, size \in UploadSizes :
          upload_file_request(Solo, claims, n, size)
    \/ PostPresign(Solo)
    \/ \E claims \in Subjects \cup {NoClaims}, id \in LeaseKeys, u \in UploadIds :
          finish_upload(Solo, claims, id, u)
    \/ FinishComplete(Solo)
    \/ \E id \in LeaseKeys : Get(Solo, id)
    \/ GetPresign(Solo)

SpecOwner == InitWith({<<1>>}) /\ [][NextOwner]_vars

\* register or login, then requests to the routes behind the middleware
NextSession ==
    \/ TickLease
    \/ \E op \in {"Register", "Login"}, user \in Subjects : StartSession(Solo, op, user)
    \/ SessionRequest(Solo)
    \/ \E cookie_jar \in OtherJars : RawRequest(Solo, cookie_jar)

SpecSession == InitWith({<<1>>}) /\ [][NextSession]_vars

\* the handlers that read dbfile.lock with unwrap(), and the lock operations
\* that bring the record into each of its states
NextUnwrap ==
    \/ Tick
    \/ \E f \in RequestIds, lock \in Tokens : Lock(Solo, f, lock)
    \/ LockUpdate(Solo)
    \/ \E f \in RequestIds, lock \in Tokens : Unlock(Solo, f, lock)
    \/ UnlockUpdate(Solo)
    \/ \E f \in RequestIds, lock \in Tokens : ExtendLock(Solo, f, lock)
    \/ ExtendUpdate(Solo)
    \/ \E f \in RequestIds : GetLock(Solo, f)
    \/ \E f \in RequestIds, lock \in MaybeLock, body \in Bodies :
          PutFile(Solo, f, lock, body)
    \/ PutFileUpdate(Solo)
    \/ PutFileUpload(Solo)
    \/ \E f \in RequestIds, user \in Users, target \in RelTargets, body \in RelBodies :
          PutRelative(Solo, f, user, target, FALSE, body)
    \/ RelAdd(Solo)
    \/ RelToken(Solo)
    \/ RelUpload(Solo)

SpecUnwrap == InitWith({<<1>>}) /\ [][NextUnwrap]_vars

\* the writers whose last step is the upload to the object store, one
\* request at a time
NextFail ==
    \/ \E f \in RequestIds, lock \in MaybeLock, body \in Bodies : PutFile(Solo, f, lock, body)
    \/ PutFileUpdate(Solo)
    \/ PutFileUpload(Solo)
    \/ \E f \in RequestIds, user \in Users, target \in RelTargets, overwrite \in BOOLEAN,
          body \in RelBodies :
          PutRelative(Solo, f, user, target, overwrite, body)
    \/ RelAdd(Solo)
    \/ RelToken(Solo)
    \/ RelUpload(Solo)
    \/ \E f \in RequestIds, user \in Users, target \in SugTargets, body \in RelBodies :
          PutRelativeSuggested(Solo, f, user, target, body)
    \/ SugFind(Solo)
    \/ SugAdd(Solo)
    \/ SugUpload(Solo)
    \/ SugToken(Solo)

SpecFail == Init /\ [][NextFail]_vars

\* two records of two users behind the router, and the token store
InitAuth ==
    /\ now = 0
    /\ files = [f \in FileIds |->
                  IF f = "f1" THEN DBFile_new(BasePath, "u1", 1)
                  ELSE IF f = "f2" THEN DBFile_new(<<"d", Sep, "b">>, "u2", 1)
                  ELSE NoFile]
    /\ objects = [p \in {BasePath, <<"d", Sep, "b">>} |->
                    IF p = BasePath THEN <<1>> ELSE <<2>>]
    /\ tokens = <<>>
    /\ leases = [l \in LeaseKeys |-> NoLease]
    /\ multipart = <<>>
    /\ cl = [c \in Clients |-> Idle]
    /\ resp = NoResp

NextAuth ==
    \/ \E user \in Subjects, f \in AuthIds : CreateToken(user, f)
    \/ \E token \in 1..MaxTokens : RevokeToken(token)
    \/ \E claims \in Subjects \cup {NoClaims}, access_token \in QueryTokens,
          f \in AuthIds : wopi_check_file_info(Solo, claims, access_token, f)
    \/ \E claims \in Subjects \cup {NoClaims}, access_token \in QueryTokens,
          f \in AuthIds : wopi_file_content(Solo, claims, access_token, f)
    \/ GetFileDownload(Solo)

SpecAuth == InitAuth /\ [][NextAuth]_vars

\* no lease stored and no multipart session open
InitLease == InitWith({<<1>>})

\* the upload flow on the SQL store, one request at a time
NextLease ==
    \/ TickLease
    \/ \E user \in UploadOwners, n \in UploadNames, size \in UploadSizes :
          Post(Solo, user, n, size)
    \/ PostPresign(Solo)
    \/ \E id \in LeaseKeys, u \in UploadIds : FinishUpload(Solo, id, u)
    \/ FinishMark(Solo)
    \/ FinishComplete(Solo)

SpecLease == InitLease /\ [][NextLease]_vars

\* the upload flow on the in-memory store, one request at a time
NextLeaseMem ==
    \/ TickLease
    \/ \E user \in UploadOwners, n \in UploadNames, size \in UploadSizes :
          MemPost(Solo, user, n, size)
    \/ PostPresign(Solo)
    \/ \E id \in LeaseKeys, u \in UploadIds : MemFinishUpload(Solo, id, u)
    \/ FinishComplete(Solo)

SpecLeaseMem == InitLease /\ [][NextLeaseMem]_vars

\* the sizes a request names: UploadFileRequest.size is a u64
RequestSizes ==
    {0, 1, CHUNK_SIZE - 1, CHUNK_SIZE, CHUNK_SIZE + 1, 2 * CHUNK_SIZE,
     MAX_FILE_SIZE, MAX_FILE_SIZE + 1}

\* the requests for upload urls, on the in-memory store
NextUpload ==
    \/ TickLease
    \/ \E user \in UploadOwners, n \in UploadNames, size \in RequestSizes :
          MemPost(Solo, user, n, size)
    \/ PostPresign(Solo)

SpecUpload == InitLease /\ [][NextUpload]_vars

\* the upload flow with the re-issue of part urls, on the in-memory store
NextResume ==
    \/ TickLease
    \/ \E user \in UploadOwners, n \in UploadNames, size \in UploadSizes :
          MemPost(Solo, user, n, size)
    \/ PostPresign(Solo)
    \/ \E id \in LeaseKeys, u \in UploadIds : MemFinishUpload(Solo, id, u)
    \/ FinishComplete(Solo)
    \/ \E id \in LeaseKeys : Get(Solo, id)
    \/ GetPresign(Solo)

SpecResume == InitLease /\ [][NextResume]_vars

\* upload, then listing
NextFiles ==
    \/ \E r \in FileUploads : MemPost(Solo, r.user, r.name, r.size)
    \/ PostPresign(Solo)
    \/ \E u \in UploadIds, n \in 1..2, byte \in PartBytes : PutPart(u, n, byte)
    \/ \E id \in LeaseKeys, u \in UploadIds : MemFinishUpload(Solo, id, u)
    \/ FinishComplete(Solo)
    \/ \E user \in ListUsers, base_path \in BasePaths : List(Solo, user, base_path)

SpecFiles == InitLease /\ [][NextFiles]_vars

\* a client that sends FinishUpload with the upload id that post returned
\* for the lease
RetryUpload(c, id) ==
    \E u \in DOMAIN multipart : multipart[u].of = id /\ FinishUpload(c, id, u)

\* the storage call of finish_upload, accepted by the object store
FinishCompleteOk(c, id) ==
    FinishComplete(c) /\ cl[c].file = id /\ resp'.res = "Ok"

NextRetry ==
    \/ TickLease
    \/ \E user \in UploadOwners, n \in UploadNames, size \in UploadSizes :
          Post(Solo, user, n, size)
    \/ PostPresign(Solo)
    \/ \E id \in LeaseKeys : RetryUpload(Solo, id)
    \/ FinishMark(Solo)
    \/ FinishComplete(Solo)

\* the handler runs to its end, the client keeps retrying and the object
\* store accepts the completion again and again
SpecRetry ==
    /\ InitLease
    /\ [][NextRetry]_vars
    /\ WF_vars(PostPresign(Solo))
    /\ WF_vars(FinishMark(Solo))
    /\ WF_vars(FinishComplete(Solo))
    /\ \A id \in LeaseKeys : SF_vars(RetryUpload(Solo, id))
    /\ \A id \in LeaseKeys : SF_vars(FinishCompleteOk(Solo, id))

\* ================================================================ claims
Exists(f) == files[f] # NoFile

\* C1: while a record holds an unexpired lock L, a PutFile or PutRelativeFile
\* that does not present L changes neither the record nor the stored object,
\* and is answered with a lock error.
C1_LockExclusivity ==
    [][/\ \A c \in Clients, f \in FileIds :
            (/\ cl[c].op \in {"PutFile", "PutRelativeFile"}
             /\ cl'[c] # cl[c]
             /\ files[f] # NoFile
             /\ files[f].path = cl[c].path
             /\ is_locked(files[f], now)
             /\ cl[c].lock # files[f].lock)
            => (files'[f] = files[f] /\ objects' = objects)
       /\ (/\ resp'.op \in {"PutFile", "PutRelativeFile"}
           /\ resp'.held # NoLock
           /\ resp'.lock # resp'.held)
          => resp'.res \in {"Conflict", "Locked"}]_vars

\* C2: requests on one file are linearizable: a Lock is acknowledged, and a
\* PutFile presenting a lock uploads its bytes, only at a moment when the
\* record is not held under a different token.
C2_Linearizable ==
    [][\A c \in Clients :
          (/\ cl[c].pc \in {"lock_update", "put_upload"}
           /\ cl[c].lock # NoLock
           /\ cl'[c].pc = "idle"
           /\ resp'.res = "Ok")
          => HeldLock(files[cl[c].file], now) \in {NoLock, cl[c].lock}]_vars

\* C3: Lock(L) on an existing record with no held lock returns Ok and leaves
\* lock = L and lock_expires_at = now + 30 min.
C3_LockUnlocked ==
    (resp.op = "Lock" /\ resp.res # "NotFound" /\ resp.held = NoLock)
    => /\ resp.res = "Ok"
       /\ files[resp.file].lock = resp.lock
       /\ files[resp.file].lock_expires_at = resp.at + LockTTL

\* C4: Lock(L) on a record holding the unexpired lock L returns Ok and
\* persists lock_expires_at = now + 30 min with the token unchanged.
C4_LockRefreshes ==
    (resp.op = "Lock" /\ resp.held # NoLock /\ resp.held = resp.lock)
    => /\ resp.res = "Ok"
       /\ files[resp.file].lock = resp.lock
       /\ files[resp.file].lock_expires_at = resp.at + LockTTL

\* C5: Lock(L) and Unlock(L) on a record holding an unexpired lock L' # L
\* return Conflict carrying exactly L' and leave the record unchanged.
C5_ConflictOnOtherToken ==
    [][(/\ resp'.op \in {"Lock", "Unlock"}
        /\ resp'.held # NoLock
        /\ resp'.held # resp'.lock)
       => /\ resp'.res = "Conflict"
          /\ resp'.reslock = resp'.held
          /\ files' = files]_vars

C5_Witness ==
    /\ resp.op = "Unlock"
    /\ resp.res = "Conflict"
    /\ resp.lock = "test"
    /\ resp.reslock = "Test"

\* C6: Unlock(L) on a record holding the unexpired lock L returns Ok and
\* clears lock and lock_expires_at; a Lock(L') that follows succeeds for
\* every L'.
C6_UnlockThenLock ==
    (resp.op = "Unlock" /\ resp.held # NoLock /\ resp.held = resp.lock)
    => /\ resp.res = "Ok"
       /\ files[resp.file].lock = NoLock
       /\ files[resp.file].lock_expires_at = NoTime
       /\ ~is_locked(files[resp.file], now)
       /\ \A l \in Tokens :
             handle_lock(PgStore_lock(files[resp.file], l, now)).res = "Ok"

C6_Witness ==
    /\ resp.op = "Unlock"
    /\ resp.res = "Ok"
    /\ resp.held = "Test"
    /\ resp.lock = "Test"

\* C7: Unlock(L) on an existing record with no held lock returns Conflict
\* with an empty lock value.
C7_UnlockUnlockedConflicts ==
    (resp.op = "Unlock" /\ resp.res # "NotFound" /\ resp.held = NoLock)
    => (resp.res = "Conflict" /\ resp.reslock = EmptyLock)

Outcome(r, t) == [res |-> r.res, err |-> r.err, held |-> HeldLock(r.file, t)]

\* C9: a record whose lock_expires_at is not after now behaves in every
\* operation like the same record with lock and lock_expires_at null, in
\* the SQL and in the in-memory store.
C9_ExpiredIsAbsent ==
    \A f \in FileIds, l \in Tokens :
       LET file == files[f]
           none == unchecked_unlock(file) IN
       (/\ Exists(f)
        /\ file.lock # NoLock
        /\ file.lock_expires_at # NoTime
        /\ file.lock_expires_at <= now)
       => /\ Outcome(PgStore_lock(file, l, now), now)
               = Outcome(PgStore_lock(none, l, now), now)
          /\ Outcome(PgStore_unlock(file, l, now), now)
               = Outcome(PgStore_unlock(none, l, now), now)
          /\ Outcome(PgStore_extend_lock(file, l, now), now)
               = Outcome(PgStore_extend_lock(none, l, now), now)
          /\ Outcome(MemStore_lock(file, l, now), now)
               = Outcome(MemStore_lock(none, l, now), now)
          /\ \A new \in Tokens :
                LET a == unlock_and_relock(file, l, new, now)
                    b == unlock_and_relock(none, l, new, now) IN
                a.ok = b.ok /\ a.err = b.err
                   /\ HeldLock(a.file, now) = HeldLock(b.file, now)
          /\ handle_get_lock(file, now) = handle_get_lock(none, now)
          /\ \A k \in Tokens \cup {NoLock} :
                put_file_check(file, k, now) = put_file_check(none, k, now)

\* C10: PutFile on a record holding the unexpired lock L', with a lock that
\* is absent or differs from L', returns Conflict carrying exactly L',
\* whatever the record's size.
C10_PutFileConflict ==
    (resp.op = "PutFile" /\ resp.held # NoLock /\ resp.lock # resp.held)
    => (resp.res = "Conflict" /\ resp.reslock = resp.held)

\* C11: PutFile on a record with no held lock and size > 0 returns Conflict
\* with an empty lock value, whether or not the request carries a lock.
C11_PutFileUnlockedNonEmpty ==
    (/\ resp.op = "PutFile"
     /\ resp.res \notin {"NotFound", "InternalServerError"}
     /\ resp.held = NoLock
     /\ resp.size > 0)
    => (resp.res = "Conflict" /\ resp.reslock = EmptyLock)

\* the lock fields of a record
LockFields(file) == <<file.lock, file.lock_expires_at>>

LockExtendUnlock(file, lock, t, d1, d2) ==
    LET a == PgStore_lock(file, lock, t)
        b == PgStore_extend_lock(a.file, lock, t + d1)
        c == PgStore_unlock(b.file, lock, t + d1 + d2) IN
    [ok |-> a.res = "Ok" /\ b.res = "Ok" /\ c.res = "Ok", file |-> c.file,
     t |-> t + d1 + d2]

\* C13: ExtendLock(L) on a record holding the unexpired lock L returns Ok and
\* changes lock_expires_at to now + 30 min and nothing else; on a record
\* holding another lock it returns Conflict and changes nothing; and
\* Lock(L); ExtendLock(L); Unlock(L) leaves an unlocked record unlocked.
C13_ExtendLockFrame ==
    [][/\ (resp'.op = "ExtendLock" /\ resp'.held # NoLock)
          => IF resp'.held = resp'.lock
             THEN /\ resp'.res = "Ok"
                  /\ files' = [files EXCEPT ![resp'.file].lock_expires_at =
                                                resp'.at + LockTTL]
                  /\ files'[resp'.file].lock = resp'.lock
             ELSE /\ resp'.res = "Conflict"
                  /\ files' = files
       /\ \A f \in FileIds, l \in Tokens, d1 \in {0} \cup TickSteps,
             d2 \in {0} \cup TickSteps :
             (Exists(f) /\ ~is_locked(files[f], now))
             => LET r == LockExtendUnlock(files[f], l, now, d1, d2) IN
                /\ r.ok
                /\ ~is_locked(r.file, r.t)
                /\ r.file.lock = NoLock]_vars

C13_Witness ==
    /\ resp.op = "ExtendLock"
    /\ resp.res = "Ok"
    /\ resp.held = "Test"
    /\ resp.lock = "Test"
    /\ resp.at > 0
    /\ files[resp.file].lock_expires_at = resp.at + LockTTL

\* C14: in every record, lock is null iff lock_expires_at is null.
C14_LockIffDeadline ==
    \A f \in FileIds :
       Exists(f) => (files[f].lock = NoLock <=> files[f].lock_expires_at = NoTime)

\* the operations that only read
Readers == {"GetLock", "GetFile", "CheckFileInfo"}

\* C15: GetLock returns the held token when the record holds an unexpired
\* lock and the empty string otherwise; no step of GetLock, GetFile or
\* CheckFileInfo changes a record, an object or a token.
C15_ReadersReadOnly ==
    [][/\ (resp'.op = "GetLock" /\ resp'.res # "NotFound")
          => /\ resp'.res = "Ok"
             /\ resp'.reslock = IF HeldLock(files[resp'.file], now) # NoLock
                                THEN HeldLock(files[resp'.file], now) ELSE EmptyLock
       /\ (resp'.op \in Readers \/ \E c \in Clients : cl'[c].op \in Readers)
          => /\ files' = files
             /\ objects' = objects
             /\ tokens' = tokens]_vars

C15_Witness ==
    /\ resp.op = "GetLock"
    /\ resp.res = "Ok"
    /\ resp.reslock = EmptyLock
    /\ files[resp.file].lock = "Test"
    /\ files[resp.file].lock_expires_at <= now

\* the routed WOPI operations
Routed == {"CheckFileInfo", "GetFile"}

\* C16: a WOPI request whose access token is bound to (u, f) is served only
\* for file f and only as user u: with another file id in the path, or
\* another user, it is refused.
C16_TokenBinding ==
    (/\ resp.op \in Routed
     /\ get_token_context(resp.access_token) # None
     /\ \/ resp.file # get_token_context(resp.access_token).file_id
        \/ resp.user # get_token_context(resp.access_token).user_id)
    => resp.res # "Ok"

\* C17: a token resolves to the (u, f) it was created for until it is
\* revoked and to None ever after; a WOPI request whose access_token is
\* missing, malformed, never issued or revoked is answered Unauthorized.
C17_TokenLifetime ==
    [][/\ \A k \in DOMAIN tokens :
            /\ k \in DOMAIN tokens'
            /\ tokens[k] = NoRow => tokens'[k] = NoRow
            /\ tokens'[k] \in {tokens[k], NoRow}
       /\ (resp'.op \in Routed /\ WopiAuth(resp'.access_token).status # "Ok")
          => resp'.res = "Unauthorized"]_vars


\* the multipart upload that a FinishUpload of lease l completed
Succeeded(l) ==
    \E i \in DOMAIN multipart : multipart[i].state = "completed" /\ multipart[i].by = l

\* C18: completed is never set on a lease whose deadline has passed, and a
\* FinishUpload that arrives after the deadline of its lease is answered
\* 410 Gone, leaves completed as it was and completes no multipart upload.
C18_ExpiredLeaseGone ==
    [][/\ \A l \in LeaseKeys :
            (~leases[l].completed /\ leases'[l].completed) => now <= leases[l].expires_at
       /\ (/\ resp'.op = "FinishUpload"
           /\ resp'.lease # NoLease
           /\ resp'.at > resp'.lease.expires_at)
          => /\ resp'.res = "Gone"
             /\ ~leases'[resp'.file].completed
             /\ multipart' = multipart]_vars

\* C19: completed never goes back to false, a lease whose FinishUpload
\* succeeded is completed, and a later FinishUpload of the same lease and
\* upload is answered Ok, NotFound or Gone and changes nothing.
C19_CompletedTerminal ==
    [][/\ \A l \in LeaseKeys : leases[l].completed => leases'[l].completed
       /\ \A l \in LeaseKeys : Succeeded(l) => leases'[l].completed
       /\ (/\ resp'.op = "FinishUpload"
           /\ resp'.upload_id \in DOMAIN multipart
           /\ multipart[resp'.upload_id].state = "completed"
           /\ multipart[resp'.upload_id].by = resp'.file)
          => /\ resp'.res \in {"Ok", "NotFound", "Gone"}
             /\ leases' = leases
             /\ multipart' = multipart]_vars

\* C20: after a FinishUpload that failed in the object store, the lease is
\* not completed unless a multipart upload was completed for it.
C20_FailedFinishRollsBack ==
    (resp.op = "FinishUpload" /\ resp.res = "StorageError")
        => (leases[resp.file].completed => Succeeded(resp.file))


\* a lease marked completed whose multipart upload is still open in the
\* object store, before its deadline
Recoverable(l) ==
    /\ leases[l] # NoLease
    /\ leases[l].completed
    /\ ~Succeeded(l)
    /\ now <= leases[l].expires_at
    /\ \E u \in DOMAIN multipart : multipart[u].of = l /\ multipart[u].state = "open"

\* C21: a FinishUpload sent before the deadline for a lease that is already
\* marked completed but whose upload is still open is not turned away: it is
\* answered Ok, with the upload completed, or with the error of the object
\* store; and a lease in that state whose client keeps retrying is
\* eventually completed, unless its deadline passes first.
C21_FailedFinishRecoverable ==
    /\ [][(/\ resp'.op = "FinishUpload"
           /\ resp'.lease # NoLease
           /\ resp'.lease.completed
           /\ resp'.at <= resp'.lease.expires_at
           /\ ~Succeeded(resp'.file))
          => /\ resp'.res \in {"Ok", "StorageError"}
             /\ resp'.res = "Ok" =>
                   \E u \in DOMAIN multipart' :
                      /\ multipart'[u].state = "completed"
                      /\ multipart'[u].by = resp'.file]_vars
    /\ \A l \in LeaseKeys :
          Recoverable(l) ~> (Succeeded(l) \/ now > leases[l].expires_at)

\* a retried FinishUpload completed the upload of a lease that an earlier,
\* failed FinishUpload had left marked completed
C21_Witness ==
    /\ resp.op = "FinishUpload"
    /\ resp.res = "Ok"
    /\ resp.lease.completed
    /\ Succeeded(resp.file)


\* C22: no two stored leases that are not completed carry the same object
\* name (every lease of the upload flow is in the bucket UserFiles).
C22_UniqueObjectKey ==
    \A l1, l2 \in LeaseKeys :
        (/\ l1 # l2
         /\ leases[l1] # NoLease /\ ~leases[l1].completed
         /\ leases[l2] # NoLease /\ ~leases[l2].completed)
        => leases[l1].name # leases[l2].name


\* C23: a ResumeUpload opens no multipart session when the lease has one;
\* for a lease that is completed or past its deadline it is answered with an
\* error and no url; and when it is answered Ok, the upload id is one that
\* existed before the call.
C23_ResumePendingOnly ==
    [][resp'.op = "ResumeUpload" /\ resp'.lease # NoLease
       => /\ (\E u \in DOMAIN multipart : multipart[u].of = resp'.file)
                => multipart' = multipart
          /\ (resp'.lease.completed \/ resp'.at > resp'.lease.expires_at)
                => (resp'.res # "Ok" /\ resp'.uris = <<>>)
          /\ resp'.res = "Ok" => resp'.upload_id \in DOMAIN multipart]_vars


C25_InvalidSize ==
    /\ \A l \in LeaseKeys : leases[l] # NoLease => leases[l].size > 0
    /\ (resp.op = "RequestUpload" /\ resp.size <= 0 /\ resp.res # "none")
          => (resp.res \notin {"Ok", "StorageError"} /\ resp.uris = <<>>)

\* n / d rounded up
Ceil(n, d) == (n + d - 1) \div d

\* C26: a RequestUpload of n bytes, 0 < n <= MAX_FILE_SIZE, that is answered
\* Ok returns ceil(n / CHUNK_SIZE) urls, for the part numbers 1, 2, ... in
\* this order: 1 url for 1 byte and for CHUNK_SIZE bytes, 2 urls for
\* CHUNK_SIZE + 1 and for 2 * CHUNK_SIZE bytes.
C26_ChunkCount ==
    (resp.op = "RequestUpload" /\ resp.res = "Ok" /\ resp.size > 0)
    => /\ Len(resp.uris) = Ceil(resp.size, CHUNK_SIZE)
       /\ \A i \in 1..Len(resp.uris) : resp.uris[i] = i
       /\ resp.size \in {1, CHUNK_SIZE} => Len(resp.uris) = 1
       /\ resp.size \in {CHUNK_SIZE + 1, 2 * CHUNK_SIZE} => Len(resp.uris) = 2

\* a request of exactly two chunks was answered with its urls
C26_Witness ==
    /\ resp.op = "RequestUpload"
    /\ resp.res = "Ok"
    /\ resp.size = 2 * CHUNK_SIZE
    /\ resp.uris = <<1, 2>>

\* C27: after a RequestUpload answered Ok the stored lease is not completed,
\* expires LeaseTTL after the request, has the requested size and holds the
\* upload id that the answer carries.
C27_PersistedLease ==
    (resp.op = "RequestUpload" /\ resp.res = "Ok")
    => /\ leases[resp.file] # NoLease
       /\ ~leases[resp.file].completed
       /\ leases[resp.file].expires_at = resp.at + LeaseTTL
       /\ leases[resp.file].size = resp.size
       /\ leases[resp.file].s3_upload_id = resp.upload_id

\* C28: a lease is stored only once a multipart session is open for it, and
\* a RequestUpload answered with an error leaves no lease stored and no
\* multipart session open for it.
C28_FailedRequestLeavesNothing ==
    /\ \A l \in LeaseKeys :
          leases[l] # NoLease => \E u \in DOMAIN multipart : multipart[u].of = l
    /\ (resp.op = "RequestUpload" /\ resp.res \notin {"Ok", "none"} /\ resp.file # "-")
          => /\ leases[resp.file] = NoLease
             /\ ~\E u \in DOMAIN multipart :
                    multipart[u].of = resp.file /\ multipart[u].state = "open"


\* C29: a PutRelativeFile in Specific mode without overwrite that finds a
\* record at the target path is answered in the step that looked: Locked
\* with the lock of that record when the lock is held at that time,
\* FileAlreadyExists when it is not, and it changes no record, no token and
\* no object; the request goes on to add a record only when no record is
\* stored at the target path.
C29_SpecificNoOverwrite ==
    [][/\ (resp'.op = "PutRelativeFile" /\ resp'.res # "NotFound" /\ cl' = cl)
          => /\ AtPath(resp'.path) # {}
             /\ \A g \in AtPath(resp'.path) :
                   /\ is_locked(files[g], now)
                        => (resp'.res = "Locked" /\ resp'.reslock = files[g].lock)
                   /\ ~is_locked(files[g], now) => resp'.res = "FileAlreadyExists"
             /\ files' = files /\ tokens' = tokens /\ objects' = objects
       /\ resp'.res \in {"Locked", "FileAlreadyExists"} /\ resp'.op = "PutRelativeFile"
          => cl' = cl
       /\ \A c \in Clients :
             (cl[c].pc = "idle" /\ cl'[c].pc = "rel_add")
             => /\ AtPath(cl'[c].path) = {}
                /\ files' = files /\ tokens' = tokens /\ objects' = objects]_vars

\* the target path holds a record whose lock has expired, and the request
\* was answered FileAlreadyExists
C29_Witness ==
    /\ resp.op = "PutRelativeFile"
    /\ resp.res = "FileAlreadyExists"
    /\ \E g \in AtPath(resp.path) :
          files[g].lock # NoLock /\ ~is_locked(files[g], now)


\* C30: when a PutRelativeFile is answered Ok, the record named in the url
\* is stored, is not the base record, is the only record at the target
\* path and belongs to the caller; the object at that path is the body of
\* the request; and the token in the url is the only token issued for that
\* record and resolves to the caller and that record.
C30_PutRelativeCreates ==
    [][(resp'.op = "PutRelativeFile" /\ resp'.res = "Ok")
       => LET id == resp'.url.id
              token == resp'.url.token IN
          /\ id \in FileIds /\ id # resp'.file
          /\ files'[id] # NoFile
          /\ files'[id].path = resp'.path
          /\ files'[id].created_by = resp'.user
          /\ \A g \in FileIds :
                (files'[g] # NoFile /\ files'[g].path = resp'.path) => g = id
          /\ resp'.path \in DOMAIN objects'
          /\ objects'[resp'.path] = resp'.body
          /\ token \in DOMAIN tokens'
          /\ tokens'[token] = [user_id |-> resp'.user, file_id |-> id]
          /\ \A t \in DOMAIN tokens' : tokens'[t].file_id = id => t = token]_vars

\* a request in Suggested mode whose first suggestion was taken was
\* answered Ok for the path of its second suggestion
C30_Witness ==
    /\ resp.op = "PutRelativeFile"
    /\ resp.res = "Ok"
    /\ resp.path = <<"d", Sep, "2", "a">>
    /\ files[resp.url.id].path = resp.path


\* the cap on the probes of one request, scaled to the few records of the
\* model
AttemptCap == 2

\* C31: a PutRelativeFile in Suggested mode probes at most AttemptCap
\* candidate paths, and the path it goes on with had no record when it was
\* probed.
C31_SuggestedCapped ==
    [][\A c \in Clients :
         /\ cl'[c].pc = "sug_find" => cl'[c].counter <= AttemptCap
         /\ (cl[c].pc = "sug_find" /\ cl'[c].pc = "sug_add")
               => AtPath(cl'[c].path) = {}]_vars


\* C32: no two file records have the same path, whatever PutRelativeFile
\* requests ran and however their steps interleaved.
C32_UniquePath ==
    \A g, h \in FileIds :
        (files[g] # NoFile /\ files[h] # NoFile /\ files[g].path = files[h].path)
            => g = h


\* C33: List(u, p) returns the objects under u\p up to the next \ as entries
\* with is_folder false and their size, the common prefixes as entries with
\* is_folder true and no size, and none of the returned names starts with u\.
C33_ListStripsPrefix ==
    (resp.op = "List" /\ resp.res = "Ok")
        => LET u == resp.user
               prefix == build_path(u, resp.path)
               under == {k \in DOMAIN objects : starts_with(k, prefix)}
               tail(k) == SubSeq(k, Len(prefix) + 1, Len(k))
               direct == {k \in under : \A i \in DOMAIN tail(k) : tail(k)[i] # Sep}
           IN  /\ \A k \in direct :
                     \E f \in resp.listing :
                        /\ build_path(u, f.name) = k
                        /\ ~f.is_folder
                        /\ f.size = content_length(objects[k])
               /\ \A k \in under \ direct :
                     \E f \in resp.listing :
                        /\ starts_with(k, build_path(u, f.name))
                        /\ f.name # <<>> /\ f.name[Len(f.name)] = Sep
                        /\ f.is_folder
                        /\ f.size = NoSize
               /\ \A f \in resp.listing :
                     \E k \in under : starts_with(k, build_path(u, f.name))
               /\ \A f \in resp.listing : ~starts_with(f.name, build_path(u, <<>>))


\* FinishUpload answered 200 for the session that RequestUpload opened for
\* its lease, after the client has PUT every part
Uploaded ==
    /\ resp.op = "FinishUpload"
    /\ resp.res = "Ok"
    /\ resp.upload_id \in DOMAIN multipart
    /\ multipart[resp.upload_id].of = resp.file
    /\ DOMAIN multipart[resp.upload_id].parts
          = DOMAIN upload_parts(resp.lease.size, CHUNK_SIZE)

\* the object u\name holds the parts in order, and List(u, "") has exactly
\* one entry for it, a file of the size of the lease
StoredAndListed ==
    LET key == resp.lease.name
        u == resp.lease.owner
        entries == {f \in get_userfiles(objects, u, <<>>) : build_path(u, f.name) = key}
    IN  /\ key \in DOMAIN objects
        /\ objects[key] = assemble(multipart[resp.upload_id].parts)
        /\ Cardinality(entries) = 1
        /\ \A f \in entries : ~f.is_folder /\ f.size = resp.lease.size

Unexpired(c) == \A k \in cl[c].cookie : k.value.exp > now

\* C35: a request with the session cookie of a successful register or login
\* is not answered 401 while the JWT is unexpired; a request without a valid
\* session cookie is answered 401 and its handler does not run.
C35_SessionCookieAccepted ==
    /\ (resp.op = "SessionRequest" /\ Unexpired(Solo)) => resp.res # "Unauthorized"
    /\ (resp.op = "RawRequest" \/ (resp.op = "SessionRequest" /\ ~Unexpired(Solo)))
          => (resp.res = "Unauthorized" /\ resp.user = NoClaims)


\* C36: a FinishUpload or ResumeUpload of a caller who is not the owner of
\* the lease does nothing to it: the lease is not marked completed, no
\* multipart upload of it is completed and no part urls are handed out.
C36_OwnerOnly ==
    [][\A claims \in Subjects, id \in LeaseKeys :
          (leases[id] # NoLease /\ leases[id].owner # claims)
             => /\ (\E u \in UploadIds : finish_upload(Solo, claims, id, u))
                     => (leases' = leases /\ cl'[Solo].pc = "idle")
                /\ Get(Solo, id) => cl'[Solo].pc = "idle"]_vars


\* the multipart sessions that RequestUpload or ResumeUpload opened for a lease
IssuedFor(id) == {u \in DOMAIN multipart : multipart[u].of = id}

\* no session was completed by the FinishUpload of another lease
CompletedByOwnLease ==
    \A u \in DOMAIN multipart :
        multipart[u].state = "completed" => multipart[u].by = multipart[u].of

\* C37: FinishUpload calls complete_multipart_upload only with an upload id
\* that was issued for its own lease, and so completes no session of
\* another lease, whatever upload id the request carries.
C37_OwnSessionOnly ==
    /\ \A c \in Clients :
          cl[c].pc = "finish_complete" => cl[c].upload_id \in IssuedFor(cl[c].file)
    /\ CompletedByOwnLease


\* the two stores hold the same lock, deadline and completed flag
StoresAgree ==
    /\ files[PgFile].lock = files[MemFile].lock
    /\ files[PgFile].lock_expires_at = files[MemFile].lock_expires_at
    /\ leases[PgLease].completed = leases[MemLease].completed

\* C38: the in-memory store and the SQL store cannot be told apart through
\* lock and mark_completed: from the same records and with the same clock a
\* call returns the same result on both and leaves the same lock,
\* lock_expires_at and completed.
C38_StoresEquivalent ==
    [][StoresAgree
         => /\ resp'.op = "lock"
                 => LET p == PgStore_lock(files[PgFile], resp'.lock, now)
                        m == MemStore_lock(files[MemFile], resp'.lock, now) IN
                    p.res = m.res /\ p.err = m.err
            /\ resp'.op = "mark_completed"
                 => PgStore_mark_completed(leases[PgLease], now)
                       = MemStore_mark_completed(leases[MemLease], now)
            /\ StoresAgree']_vars


\* C39: the lock that handle_put_file, handle_get_lock and PutRelativeFile
\* (Specific) take out of the record with unwrap() is never absent, in
\* whatever state the record is.
C39_NoAbsentUnwrap ==
    /\ (resp.op = "PutFile" /\ resp.res = "Conflict" /\ resp.lock # NoLock)
          => resp.reslock # NoLock
    /\ (resp.op = "GetLock" /\ resp.res = "Ok") => resp.reslock # NoLock
    /\ (resp.op = "PutRelativeFile" /\ resp.res = "Locked") => resp.reslock # NoLock

\* GetLock answered for a record that has a running deadline and no lock
C39_Witness ==
    /\ resp.op = "GetLock"
    /\ resp.res = "Ok"
    /\ files[resp.file].lock = NoLock
    /\ files[resp.file].lock_expires_at > now


\* C40: when PutFile answers with an internal error the record has the size
\* it had before the request, and when PutRelativeFile does, the request has
\* left neither a record nor an access token behind.
C40_FailureLeavesStore ==
    [][(resp'.res = "InternalServerError" /\ cl[Solo].pc # "idle")
         => /\ cl[Solo].op = "PutFile"
                 => files'[cl[Solo].file].size = cl[Solo].size
            /\ cl[Solo].op = "PutRelativeFile"
                 => /\ files'[cl[Solo].newid] = NoFile
                    /\ \A i \in DOMAIN tokens' :
                          tokens'[i].file_id # cl[Solo].newid]_vars

====
